---- MODULE Spec2Model ----
(***************************************************************************)
(* Model of the generic CRUD server of SupabaseManager                     *)
(* (server/routes.ts): the HTTP routes, DatabaseStorage, and the           *)
(* PostgreSQL database the statements are executed against.                *)
(*                                                                         *)
(* A statement is what the code hands to db.execute: the SQL text, kept as *)
(* the sequence of its lexemes (keywords, "quoted identifiers",            *)
(* $n placeholders), and the positional parameter list.                    *)
(***************************************************************************)
EXTENDS Integers, Sequences, FiniteSets, TLC

VARIABLES db, resp, deleted, up, job, calls, locals, ui

vars == <<db, resp, deleted, up, job, calls, locals, ui>>

(***************************************************************************)
(* Bounds of the model.                                                    *)
(***************************************************************************)
MaxKeys == 2
MaxFilters == 2
MaxPage == 2
MaxLimit == 2

(***************************************************************************)
(* JavaScript values, tagged by type.                                      *)
(***************************************************************************)
S(str) == [t |-> "str", s |-> str, n |-> 0]
I(num) == [t |-> "int", s |-> "", n |-> num]
NullV == [t |-> "null", s |-> "", n |-> 0]
UndefV == [t |-> "undef", s |-> "", n |-> 0]
NotNullObj == [t |-> "obj", s |-> "{not:null}", n |-> 0]
NaN == [t |-> "nan", s |-> "", n |-> 0]

\* JavaScript truthiness of a value (if (search), if (sortBy), x || y).
Truthy(v) ==
  CASE v.t = "str" -> v.s # ""
    [] v.t = "int" -> v.n # 0
    [] v.t = "obj" -> TRUE
    [] OTHER -> FALSE

\* x || y
OrDefault(v, dflt) == IF Truthy(v) THEN v ELSE dflt

\* parseInt(str): the integer an optional sign and the leading decimal
\* digits denote, NaN when there is no leading digit or no string.
Digits == "0123456789"
DigitValue(c) ==
  IF \E i \in 1..Len(Digits) : SubSeq(Digits, i, i) = c
    THEN (CHOOSE i \in 1..Len(Digits) : SubSeq(Digits, i, i) = c) - 1
    ELSE -1

RECURSIVE ParseDigits(_, _)
ParseDigits(str, acc) ==
  IF str = "" \/ DigitValue(SubSeq(str, 1, 1)) < 0 THEN acc
  ELSE ParseDigits(SubSeq(str, 2, Len(str)), acc * 10 + DigitValue(SubSeq(str, 1, 1)))

ParseInt(v) ==
  IF v.t # "str" \/ v.s = "" THEN NaN
  ELSE LET signed == SubSeq(v.s, 1, 1) \in {"-", "+"}
           body == IF signed THEN SubSeq(v.s, 2, Len(v.s)) ELSE v.s
       IN IF body = "" \/ DigitValue(SubSeq(body, 1, 1)) < 0 THEN NaN
          ELSE [t |-> "int", s |-> "",
                n |-> (IF SubSeq(v.s, 1, 1) = "-" THEN -1 ELSE 1) * ParseDigits(body, 0)]

(***************************************************************************)
(* Sequence helpers.                                                       *)
(***************************************************************************)
Range(seq) == {seq[i] : i \in 1..Len(seq)}

\* First index of x in seq, 0 when absent (Array.prototype.indexOf + 1).
IndexOf(seq, x) ==
  IF x \in Range(seq)
    THEN CHOOSE i \in 1..Len(seq) : seq[i] = x /\ \A j \in 1..(i - 1) : seq[j] # x
    ELSE 0

\* Array.prototype.join on arrays of lexeme sequences.
RECURSIVE Join(_, _)
Join(parts, sep) ==
  IF Len(parts) = 0 THEN <<>>
  ELSE IF Len(parts) = 1 THEN parts[1]
  ELSE parts[1] \o <<sep>> \o Join(Tail(parts), sep)

\* Array.prototype.filter.
RECURSIVE SelectSeqIdx(_, _)
SelectSeqIdx(seq, keep) ==
  IF seq = <<>> THEN <<>>
  ELSE IF Head(seq) \in keep THEN <<Head(seq)>> \o SelectSeqIdx(Tail(seq), keep)
  ELSE SelectSeqIdx(Tail(seq), keep)

\* resultArray[0], as a sequence of at most one row.
First(rows) == IF Len(rows) > 0 THEN <<rows[1]>> ELSE <<>>

\* All orderings of a finite set, as sequences.
Orderings(set) ==
  {f \in [1..Cardinality(set) -> set] : \A i, j \in 1..Cardinality(set) : i # j => f[i] # f[j]}

(***************************************************************************)
(* Lexemes of the SQL text.                                                *)
(***************************************************************************)
Q(name) == "\"" \o name \o "\""
P(k) == "$" \o ToString(k)
IsIdent(tok) == Len(tok) >= 1 /\ SubSeq(tok, 1, 1) = "\""
IsPlaceholder(tok) == Len(tok) >= 2 /\ SubSeq(tok, 1, 1) = "$"
Unquote(tok) == SubSeq(tok, 2, Len(tok) - 1)
PlaceholderIndex(tok, params) ==
  IF \E k \in 1..Len(params) : P(k) = tok
    THEN CHOOSE k \in 1..Len(params) : P(k) = tok
    ELSE 0

Stmt(text, params) == [text |-> text, params |-> params]

(***************************************************************************)
(* The database: the catalog (information_schema) and the rows.            *)
(***************************************************************************)
\* information_schema.tables: three base tables and a view of the public
\* schema, and a table of another schema that is also named users.  The
\* table empty has no column.
InformationSchemaTables ==
  {[table_schema |-> "public", table_name |-> "users", table_type |-> "BASE TABLE"],
   [table_schema |-> "public", table_name |-> "codes", table_type |-> "BASE TABLE"],
   [table_schema |-> "public", table_name |-> "empty", table_type |-> "BASE TABLE"],
   [table_schema |-> "public", table_name |-> "emails", table_type |-> "VIEW"],
   [table_schema |-> "archive", table_name |-> "users", table_type |-> "BASE TABLE"]}

\* information_schema.columns.  users is the example table of
\* shared/schema.ts cut down to two columns, its id defaulting to
\* gen_random_uuid(); codes has one char(n) column, its key; emails is
\* SELECT DISTINCT email FROM users; archive.users has the one column
\* email.  column_default is NULL where there is no default.
InformationSchemaColumns ==
  {[table_schema |-> "public", table_name |-> "users", column_name |-> "email",
    data_type |-> "text", is_nullable |-> "YES", ordinal_position |-> 2,
    column_default |-> NullV],
   [table_schema |-> "public", table_name |-> "users", column_name |-> "id",
    data_type |-> "character varying", is_nullable |-> "NO", ordinal_position |-> 1,
    column_default |-> S("gen_random_uuid()")],
   [table_schema |-> "public", table_name |-> "codes", column_name |-> "code",
    data_type |-> "character", is_nullable |-> "NO", ordinal_position |-> 1,
    column_default |-> NullV],
   [table_schema |-> "public", table_name |-> "emails", column_name |-> "email",
    data_type |-> "text", is_nullable |-> "YES", ordinal_position |-> 1,
    column_default |-> NullV],
   [table_schema |-> "archive", table_name |-> "users", column_name |-> "email",
    data_type |-> "text", is_nullable |-> "NO", ordinal_position |-> 1,
    column_default |-> NullV]}

\* information_schema.table_constraints: PRIMARY KEY (id) of public.users,
\* PRIMARY KEY (code) of public.codes and PRIMARY KEY (email) of
\* archive.users.
TableConstraints ==
  {[constraint_name |-> "users_pkey", table_schema |-> "public", table_name |-> "users",
    constraint_type |-> "PRIMARY KEY"],
   [constraint_name |-> "codes_pkey", table_schema |-> "public", table_name |-> "codes",
    constraint_type |-> "PRIMARY KEY"],
   [constraint_name |-> "users_archive_pkey", table_schema |-> "archive", table_name |-> "users",
    constraint_type |-> "PRIMARY KEY"]}

\* information_schema.key_column_usage.
KeyColumnUsage ==
  {[constraint_name |-> "users_pkey", table_schema |-> "public", table_name |-> "users",
    column_name |-> "id"],
   [constraint_name |-> "codes_pkey", table_schema |-> "public", table_name |-> "codes",
    column_name |-> "code"],
   [constraint_name |-> "users_archive_pkey", table_schema |-> "archive", table_name |-> "users",
    column_name |-> "email"]}

\* The subquery pk of getTableInfo: one row for every pair of a PRIMARY KEY
\* constraint of a table of that name and a key column usage of a
\* constraint of the same name.
PrimaryKeyUsage(tableName) ==
  {pair \in TableConstraints \X KeyColumnUsage :
     /\ pair[1].constraint_name = pair[2].constraint_name
     /\ pair[1].table_name = tableName
     /\ pair[1].constraint_type = "PRIMARY KEY"}

\* The columns PostgreSQL enforces as the primary key of a public table.
KeyColumns(tableName) ==
  {k.column_name : k \in {x \in KeyColumnUsage :
     /\ x.table_schema = "public" /\ x.table_name = tableName
     /\ \E tc \in TableConstraints :
          /\ tc.constraint_name = x.constraint_name /\ tc.table_schema = "public"
          /\ tc.table_name = tableName /\ tc.constraint_type = "PRIMARY KEY"}}

\* The base tables of the public schema, whose rows the database stores,
\* and its views.
Tables == {t.table_name : t \in {x \in InformationSchemaTables :
                                   x.table_schema = "public" /\ x.table_type = "BASE TABLE"}}
Views == {t.table_name : t \in {x \in InformationSchemaTables :
                                  x.table_schema = "public" /\ x.table_type = "VIEW"}}

\* The columns query of getTableInfo (routes.ts 214-234): the public
\* columns of the name LEFT JOINed with pk on the column name, a row for
\* every match and one row for a column without a match.
MatchedRows(cols, pk) ==
  {j \in {[col |-> c, pk |-> <<pair>>] : c \in cols, pair \in pk} :
     j.pk[1][2].column_name = j.col.column_name}
    \cup {[col |-> c, pk |-> <<>>] :
            c \in {x \in cols : \A pair \in pk : pair[2].column_name # x.column_name}}

\* ORDER BY c.ordinal_position
ByOrdinal(rows) ==
  CHOOSE f \in [1..Cardinality(rows) -> rows] :
    /\ \A r \in rows : \E i \in 1..Cardinality(rows) : f[i] = r
    /\ \A i, j \in 1..Cardinality(rows) :
         i < j => f[i].col.ordinal_position <= f[j].col.ordinal_position

\* routes.ts 245-251: the descriptor's column records.
ColumnRecords(sorted) ==
  [i \in 1..Len(sorted) |->
     [name |-> sorted[i].col.column_name,
      type |-> sorted[i].col.data_type,
      nullable |-> sorted[i].col.is_nullable = "YES",
      primaryKey |-> sorted[i].pk # <<>>,
      defaultValue |-> sorted[i].col.column_default]]

PublicColumns(name) ==
  {c \in InformationSchemaColumns : c.table_name = name /\ c.table_schema = "public"}

\* The columns of the descriptor for every name the columns query finds
\* columns for.
CatalogOf ==
  [name \in {c.table_name : c \in {x \in InformationSchemaColumns : x.table_schema = "public"}} |->
     ColumnRecords(ByOrdinal(MatchedRows(PublicColumns(name), PrimaryKeyUsage(name))))]

CatalogEntry(cat, tableName) == IF tableName \in DOMAIN cat THEN cat[tableName] ELSE << >>
Catalog(tableName) == CatalogEntry(CatalogOf, tableName)

NamesOf(columns) == {columns[i].name : i \in 1..Len(columns)}
ColumnNames(tableName) == NamesOf(Catalog(tableName))
PkColumns(tableName) ==
  {Catalog(tableName)[i].name : i \in {j \in 1..Len(Catalog(tableName)) : Catalog(tableName)[j].primaryKey}}

\* LIKE matching with case kept (% any run, _ any one character).
RECURSIVE Like(_, _)
Like(pat, str) ==
  IF pat = "" THEN str = ""
  ELSE LET ph == SubSeq(pat, 1, 1)
           pt == SubSeq(pat, 2, Len(pat))
       IN IF ph = "%"
            THEN Like(pt, str) \/ (str # "" /\ Like(pat, SubSeq(str, 2, Len(str))))
            ELSE /\ str # ""
                 /\ (ph = "_" \/ ph = SubSeq(str, 1, 1))
                 /\ Like(pt, SubSeq(str, 2, Len(str)))

\* ORDER BY t.table_name: the order of names made of lower-case letters.
Alphabet == "_abcdefghijklmnopqrstuvwxyz"
CharRank(c) ==
  IF \E i \in 1..Len(Alphabet) : SubSeq(Alphabet, i, i) = c
    THEN CHOOSE i \in 1..Len(Alphabet) : SubSeq(Alphabet, i, i) = c
    ELSE 0
RECURSIVE NameBefore(_, _)
NameBefore(a, b) ==
  IF a = "" THEN b # ""
  ELSE IF b = "" THEN FALSE
  ELSE IF SubSeq(a, 1, 1) = SubSeq(b, 1, 1)
    THEN NameBefore(SubSeq(a, 2, Len(a)), SubSeq(b, 2, Len(b)))
  ELSE CharRank(SubSeq(a, 1, 1)) < CharRank(SubSeq(b, 1, 1))

\* The result of the tables query of getTables: the names in order.
ListTables ==
  LET names == {t.table_name : t \in
                  {x \in InformationSchemaTables :
                     /\ x.table_schema = "public"
                     /\ x.table_type = "BASE TABLE"
                     /\ ~Like("pg_%", x.table_name)
                     /\ ~Like("_pg_%", x.table_name)
                     /\ x.table_name # "spatial_ref_sys"}}
  IN CHOOSE f \in [1..Cardinality(names) -> names] :
       \A i, j \in 1..Cardinality(names) : i < j => NameBefore(f[i], f[j])

\* The rows of a relation in database d: stored for a base table, computed
\* for the view.
Rows(d, name) ==
  IF name = "emails" THEN {[email |-> v] : v \in {row.email : row \in d["users"]}}
  ELSE d[name]

\* The values gen_random_uuid() can produce for the id column.
IdSet == {"1", "2"}

(***************************************************************************)
(* PostgreSQL's execution of the statements the code emits.  An outcome is *)
(* [ok, rows, n, db]: whether the statement succeeded, the rows it         *)
(* returned, the count it returned or the number of rows it affected, and  *)
(* the database after it.  A statement has a set of possible outcomes: the *)
(* order of rows without ORDER BY and a generated id are the database's    *)
(* choice.                                                                 *)
(***************************************************************************)
Failure(d) == {[ok |-> FALSE, rows |-> <<>>, n |-> 0, db |-> d]}

After(toks, kw) ==
  IF IndexOf(toks, kw) = 0 THEN <<>> ELSE SubSeq(toks, IndexOf(toks, kw) + 1, Len(toks))

\* The prefix of toks before the first lexeme in stops.
Upto(toks, stops) ==
  IF \E i \in 1..Len(toks) : toks[i] \in stops
    THEN SubSeq(toks, 1, (CHOOSE i \in 1..Len(toks) :
                            toks[i] \in stops /\ \A j \in 1..(i - 1) : toks[j] \notin stops) - 1)
    ELSE toks

ClauseStops == {"WHERE", "ORDER BY", "LIMIT", "OFFSET", "RETURNING"}
WhereToks(text) == Upto(After(text, "WHERE"), ClauseStops)
OrderToks(text) == Upto(After(text, "ORDER BY"), ClauseStops)

\* The placeholders of a statement are exactly $1..$n for its n parameters,
\* and no parameter is undefined.
ParamsOk(st) ==
  /\ {PlaceholderIndex(st.text[i], st.params) :
        i \in {j \in 1..Len(st.text) : IsPlaceholder(st.text[j])}} = 1..Len(st.params)
  /\ \A k \in 1..Len(st.params) : st.params[k].t # "undef"

\* Every quoted identifier among toks is a column of the table.
ColumnsOk(toks, tableName) ==
  \A i \in 1..Len(toks) : IsIdent(toks[i]) => Unquote(toks[i]) \in ColumnNames(tableName)

PredOk(toks) ==
  /\ Len(toks) >= 3
  /\ IsIdent(toks[1])
  /\ toks[2] \in {"=", "ILIKE"}
  /\ IsPlaceholder(toks[3])

RECURSIVE DisjOk(_)
DisjOk(toks) ==
  /\ PredOk(toks)
  /\ \/ Len(toks) = 3
     \/ Len(toks) > 4 /\ toks[4] = "OR" /\ DisjOk(SubSeq(toks, 5, Len(toks)))

RECURSIVE ConjOk(_)
ConjOk(toks) ==
  IF toks = <<>> THEN FALSE
  ELSE IF toks[1] = "("
    THEN LET j == IndexOf(toks, ")")
         IN /\ j > 2
            /\ DisjOk(SubSeq(toks, 2, j - 1))
            /\ \/ j = Len(toks)
               \/ j + 1 < Len(toks) /\ toks[j + 1] = "AND" /\ ConjOk(SubSeq(toks, j + 2, Len(toks)))
    ELSE /\ PredOk(toks)
         /\ \/ Len(toks) = 3
            \/ Len(toks) > 4 /\ toks[4] = "AND" /\ ConjOk(SubSeq(toks, 5, Len(toks)))

\* Lower-case folding of ILIKE, for the letters the model uses.
Lower(c) == CASE c = "A" -> "a" [] c = "B" -> "b" [] OTHER -> c

\* LIKE matching of string str against pattern pat (% any run, _ any one).
RECURSIVE LikeMatch(_, _)
LikeMatch(pat, str) ==
  IF pat = "" THEN str = ""
  ELSE LET ph == SubSeq(pat, 1, 1)
           pt == SubSeq(pat, 2, Len(pat))
       IN IF ph = "%"
            THEN LikeMatch(pt, str) \/ (str # "" /\ LikeMatch(pat, SubSeq(str, 2, Len(str))))
            ELSE /\ str # ""
                 /\ (ph = "_" \/ Lower(ph) = Lower(SubSeq(str, 1, 1)))
                 /\ LikeMatch(pt, SubSeq(str, 2, Len(str)))

\* One predicate "col" op $k on a row; a comparison with NULL is not true.
PredHolds(toks, row, params) ==
  LET col == Unquote(toks[1])
      pv == params[PlaceholderIndex(toks[3], params)]
  IN /\ row[col].t = "str"
     /\ pv.t \in {"str", "int"}
     /\ LET ps == IF pv.t = "int" THEN ToString(pv.n) ELSE pv.s
        IN IF toks[2] = "=" THEN row[col].s = ps ELSE LikeMatch(ps, row[col].s)

RECURSIVE DisjHolds(_, _, _)
DisjHolds(toks, row, params) ==
  \/ PredHolds(toks, row, params)
  \/ Len(toks) > 4 /\ DisjHolds(SubSeq(toks, 5, Len(toks)), row, params)

RECURSIVE ConjHolds(_, _, _)
ConjHolds(toks, row, params) ==
  IF toks[1] = "("
    THEN LET j == IndexOf(toks, ")")
         IN /\ DisjHolds(SubSeq(toks, 2, j - 1), row, params)
            /\ (j = Len(toks) \/ ConjHolds(SubSeq(toks, j + 2, Len(toks)), row, params))
    ELSE /\ PredHolds(toks, row, params)
         /\ (Len(toks) = 3 \/ ConjHolds(SubSeq(toks, 5, Len(toks)), row, params))

HasWhere(text) == "WHERE" \in Range(text)
WhereOk(text, tableName) ==
  HasWhere(text) => ConjOk(WhereToks(text)) /\ ColumnsOk(WhereToks(text), tableName)
Matching(text, params, rows) ==
  IF HasWhere(text) THEN {r \in rows : ConjHolds(WhereToks(text), r, params)} ELSE rows

\* The statement's table: the identifier after FROM, INTO or UPDATE.
TableOf(text) ==
  LET i == CHOOSE k \in 1..Len(text) : IsIdent(text[k]) /\ \A j \in 1..(k - 1) : ~IsIdent(text[j])
  IN Unquote(text[i])
TableOk(text) == (\E k \in 1..Len(text) : IsIdent(text[k])) /\ TableOf(text) \in Tables \cup Views
\* Only a base table can be written: the view is not updatable.
Writable(text) == TableOk(text) /\ TableOf(text) \in Tables

\* Sort order of the text values the model uses; NULL sorts after them.
Collation == <<"", "1", "2", "A", "a", "B", "b">>
SortKey(v) == IF v.t = "str" THEN IndexOf(Collation, v.s) ELSE Len(Collation) + 1

\* SELECT COUNT(*) as count FROM "t" [WHERE ...]
ExecCount(st, d) ==
  IF ~(TableOk(st.text) /\ ParamsOk(st) /\ WhereOk(st.text, TableOf(st.text)))
    THEN Failure(d)
    ELSE {[ok |-> TRUE, rows |-> <<>>, db |-> d,
           n |-> Cardinality(Matching(st.text, st.params, Rows(d, TableOf(st.text))))]}

\* SELECT * FROM "t" [WHERE ...] [ORDER BY "c" dir] [LIMIT $a OFFSET $b]
ExecSelect(st, d) ==
  LET text == st.text
      ord == OrderToks(text)
      hasOrder == "ORDER BY" \in Range(text)
      hasLimit == "LIMIT" \in Range(text)
      lim == IF hasLimit THEN After(text, "LIMIT") ELSE <<>>
      limOk == /\ Len(lim) = 3 /\ IsPlaceholder(lim[1]) /\ lim[2] = "OFFSET" /\ IsPlaceholder(lim[3])
  IN IF ~(/\ TableOk(text) /\ ParamsOk(st) /\ WhereOk(text, TableOf(text))
          /\ hasOrder => (/\ Len(ord) = 2 /\ IsIdent(ord[1])
                          /\ ColumnsOk(ord, TableOf(text)) /\ ord[2] \in {"ASC", "DESC"})
          /\ hasLimit => limOk)
       THEN Failure(d)
       ELSE LET limit == IF hasLimit THEN st.params[PlaceholderIndex(lim[1], st.params)] ELSE I(0)
                offset == IF hasLimit THEN st.params[PlaceholderIndex(lim[3], st.params)] ELSE I(0)
                hit == Matching(text, st.params, Rows(d, TableOf(text)))
                inOrder(o) ==
                  hasOrder =>
                    \A i, j \in 1..Len(o) : i < j =>
                      IF ord[2] = "ASC"
                        THEN SortKey(o[i][Unquote(ord[1])]) <= SortKey(o[j][Unquote(ord[1])])
                        ELSE SortKey(o[i][Unquote(ord[1])]) >= SortKey(o[j][Unquote(ord[1])])
            IN IF hasLimit /\ ~(limit.t = "int" /\ limit.n >= 0 /\ offset.t = "int" /\ offset.n >= 0)
                 THEN Failure(d)
                 ELSE {[ok |-> TRUE, db |-> d, n |-> Len(page), rows |-> page] :
                        page \in {IF hasLimit
                                    THEN SubSeq(o, offset.n + 1,
                                                IF offset.n + limit.n < Len(o) THEN offset.n + limit.n ELSE Len(o))
                                    ELSE o : o \in {x \in Orderings(hit) : inOrder(x)}}}

\* A comma-separated list of single lexemes: x , y , z
ListOk(toks) ==
  /\ Len(toks) % 2 = 1
  /\ \A i \in 1..Len(toks) : (i % 2 = 0) <=> (toks[i] = ",")
Items(toks) == [i \in 1..((Len(toks) + 1) \div 2) |-> toks[2 * i - 1]]

\* What PostgreSQL stores in a text column for a bound parameter.
Stored(pv) == IF pv.t = "int" THEN S(ToString(pv.n)) ELSE pv
Storable(pv) == pv.t \in {"str", "int", "null"}

\* The NOT NULL and PRIMARY KEY constraints of a table on a set of rows.
ConstraintsOk(tableName, rows) ==
  /\ \A r \in rows : \A i \in 1..Len(Catalog(tableName)) :
       ~Catalog(tableName)[i].nullable => r[Catalog(tableName)[i].name].t # "null"
  /\ \A r1, r2 \in rows :
       (\A c \in KeyColumns(tableName) : r1[c] = r2[c]) /\ KeyColumns(tableName) # {} => r1 = r2

\* INSERT INTO "t" ("c1", ...) VALUES ($1, ...) RETURNING *
ExecInsert(st, d) ==
  LET text == st.text
      v == IndexOf(text, "VALUES")
      r == IndexOf(text, "RETURNING")
      shapeOk == /\ Len(text) >= 3 /\ text[3] = "(" /\ v > 4 /\ text[v - 1] = ")"
                 /\ r > v + 2 /\ text[v + 1] = "(" /\ text[r - 1] = ")"
      cols == SubSeq(text, 4, v - 2)
      vals == SubSeq(text, v + 2, r - 2)
  IN IF ~(/\ Writable(text) /\ ParamsOk(st) /\ shapeOk
          /\ ListOk(cols) /\ ListOk(vals) /\ Len(cols) = Len(vals)
          /\ \A i \in 1..Len(cols) : (i % 2 = 1) => IsIdent(cols[i]) /\ IsPlaceholder(vals[i])
          /\ ColumnsOk(cols, TableOf(text))
          /\ \A k \in 1..Len(st.params) : Storable(st.params[k]))
       THEN Failure(d)
       ELSE LET tn == TableOf(text)
                names == Items(cols)
                given(c) == Q(c) \in Range(names)
                value(c) == Stored(st.params[PlaceholderIndex(Items(vals)[IndexOf(names, Q(c))], st.params)])
                \* column defaults: gen_random_uuid() where declared, NULL otherwise
                defaults(c) == IF \E x \in InformationSchemaColumns :
                                    /\ x.table_schema = "public" /\ x.table_name = tn
                                    /\ x.column_name = c /\ x.column_default = S("gen_random_uuid()")
                                 THEN {S(x) : x \in IdSet \ {row[c].s : row \in d[tn]}}
                                 ELSE {NullV}
                news == {row \in [ColumnNames(tn) -> {S(x) : x \in IdSet} \cup {Stored(st.params[k]) : k \in 1..Len(st.params)} \cup {NullV}] :
                           \A c \in ColumnNames(tn) :
                             IF given(c) THEN row[c] = value(c) ELSE row[c] \in defaults(c)}
                good == {row \in news : ConstraintsOk(tn, d[tn] \cup {row}) /\ row \notin d[tn]}
            IN {[ok |-> TRUE, rows |-> <<row>>, n |-> 1, db |-> [d EXCEPT ![tn] = @ \cup {row}]] : row \in good}
               \cup (IF \E row \in news : row \notin good THEN Failure(d) ELSE {})

\* UPDATE "t" SET "c1" = $1, ... WHERE "pk" = $n RETURNING *
ExecUpdate(st, d) ==
  LET text == st.text
      w == IndexOf(text, "WHERE")
      sets == IF w > 3 THEN SubSeq(text, 4, w - 1) ELSE <<>>
      setsOk == /\ Len(text) >= 3 /\ text[3] = "SET" /\ Len(sets) % 4 = 3
                /\ \A i \in 1..Len(sets) :
                     CASE i % 4 = 1 -> IsIdent(sets[i])
                       [] i % 4 = 2 -> sets[i] = "="
                       [] i % 4 = 3 -> IsPlaceholder(sets[i])
                       [] OTHER -> sets[i] = ","
  IN IF ~(/\ Writable(text) /\ ParamsOk(st) /\ setsOk /\ ColumnsOk(sets, TableOf(text))
          /\ WhereOk(text, TableOf(text))
          /\ \A i \in 1..Len(sets) : IsPlaceholder(sets[i]) =>
               Storable(st.params[PlaceholderIndex(sets[i], st.params)]))
       THEN Failure(d)
       ELSE LET tn == TableOf(text)
                hit == Matching(text, st.params, d[tn])
                assigned(c) == \E i \in 1..Len(sets) : sets[i] = Q(c)
                \* the last assignment to a column wins
                value(c) == LET i == CHOOSE k \in 1..Len(sets) :
                                       sets[k] = Q(c) /\ \A j \in (k + 1)..Len(sets) : sets[j] # Q(c)
                            IN Stored(st.params[PlaceholderIndex(sets[i + 2], st.params)])
                new(row) == [c \in ColumnNames(tn) |-> IF assigned(c) THEN value(c) ELSE row[c]]
                news == {new(row) : row \in hit}
                after == (d[tn] \ hit) \cup news
            IN IF ~(ConstraintsOk(tn, after) /\ Cardinality(after) = Cardinality(d[tn]))
                 THEN Failure(d)
                 ELSE {[ok |-> TRUE, rows |-> o, n |-> Len(o), db |-> [d EXCEPT ![tn] = after]] :
                        o \in Orderings(news)}

\* DELETE FROM "t" WHERE "pk" = $1
ExecDelete(st, d) ==
  IF ~(Writable(st.text) /\ ParamsOk(st) /\ WhereOk(st.text, TableOf(st.text)))
    THEN Failure(d)
    ELSE LET tn == TableOf(st.text)
             hit == Matching(st.text, st.params, d[tn])
         IN {[ok |-> TRUE, rows |-> <<>>, n |-> Cardinality(hit), db |-> [d EXCEPT ![tn] = @ \ hit]]}

\* db.execute(sql.raw(text, params)) on database d: the possible outcomes.
\* Every statement fails while the connection to the database is down.
Exec(st, d) ==
  IF ~up THEN Failure(d) ELSE
  CASE Len(st.text) >= 2 /\ st.text[1] = "SELECT" /\ st.text[2] = "COUNT(*)" -> ExecCount(st, d)
    [] Len(st.text) >= 2 /\ st.text[1] = "SELECT" /\ st.text[2] # "COUNT(*)" -> ExecSelect(st, d)
    [] Len(st.text) >= 1 /\ st.text[1] = "INSERT INTO" -> ExecInsert(st, d)
    [] Len(st.text) >= 1 /\ st.text[1] = "UPDATE" -> ExecUpdate(st, d)
    [] Len(st.text) >= 1 /\ st.text[1] = "DELETE FROM" -> ExecDelete(st, d)
    [] OTHER -> Failure(d)

(***************************************************************************)
(* DatabaseStorage.  Each method yields the set of its possible results    *)
(* [threw, found, rows, total, totalPages, hit, sent, db]: whether it      *)
(* threw, whether it returned a value other than null/undefined/false, the *)
(* rows it returned, the statements it sent to the database in order, the  *)
(* database afterwards, and hit: the row count the database reported for   *)
(* the method's last statement (-1 when that statement failed or none was  *)
(* sent).                                                                  *)
(***************************************************************************)
Result(threw, found, rows, total, totalPages, hit, sent, d) ==
  [threw |-> threw, found |-> found, rows |-> rows, total |-> total,
   totalPages |-> totalPages, hit |-> hit, sent |-> sent, db |-> d]

\* The catalog query of getTableInfo; the table name is bound twice by the
\* sql`` template.
CatalogStmt(tableName) ==
  Stmt(<<"SELECT", "c.column_name", ",", "c.data_type", ",", "c.is_nullable", ",",
         "c.column_default", ",", "is_primary_key",
         "FROM", "information_schema.columns", "c", "LEFT JOIN", "pk",
         "WHERE", "tc.table_name", "=", P(1), "AND", "c.table_name", "=", P(2),
         "ORDER BY", "c.ordinal_position">>,
       <<S(tableName), S(tableName)>>)

RowCountStmt(tableName) == Stmt(<<"SELECT", "COUNT(*)", "as", "count", "FROM", Q(tableName)>>, <<>>)

\* getTableInfo: [found, columns, rowCount, sent].
GetTableInfo(tableName, d) ==
  IF ~up \/ Len(Catalog(tableName)) = 0
    THEN {[found |-> FALSE, columns |-> <<>>, rowCount |-> 0, sent |-> <<CatalogStmt(tableName)>>]}
    ELSE {IF out.ok
            THEN [found |-> TRUE, columns |-> Catalog(tableName), rowCount |-> out.n,
                  sent |-> <<CatalogStmt(tableName), RowCountStmt(tableName)>>]
            ELSE [found |-> FALSE, columns |-> <<>>, rowCount |-> 0,
                  sent |-> <<CatalogStmt(tableName), RowCountStmt(tableName)>>]
          : out \in Exec(RowCountStmt(tableName), d)}

NoInfo == [found |-> FALSE, columns |-> <<>>, rowCount |-> 0, sent |-> <<>>]

\* PrimaryKey taking the last marked column instead of the first.
PrimaryKeyLast(columns) ==
  IF \E i \in 1..Len(columns) : columns[i].primaryKey
    THEN columns[CHOOSE i \in 1..Len(columns) :
                   columns[i].primaryKey /\ \A j \in (i + 1)..Len(columns) : ~columns[j].primaryKey].name
    ELSE "id"

\* tableInfo.columns.find(col => col.primaryKey)?.name || 'id'
PrimaryKey(columns) ==
  IF \E i \in 1..Len(columns) : columns[i].primaryKey
    THEN columns[CHOOSE i \in 1..Len(columns) :
                   columns[i].primaryKey /\ \A j \in 1..(i - 1) : ~columns[j].primaryKey].name
    ELSE "id"

TextTypes == {"text", "varchar", "character varying"}

\* The search clause: one ILIKE per text column, all on the same placeholder.
SearchClause(columns, nparams) ==
  Join([i \in 1..Len(SelectSeqIdx(columns, {c \in Range(columns) : c.type \in TextTypes})) |->
          <<Q(SelectSeqIdx(columns, {c \in Range(columns) : c.type \in TextTypes})[i].name),
            "ILIKE", P(nparams + 1)>>],
       "OR")

\* Whether getRecords turns a filter value into a predicate.
FilterApplies(value) == value.t # "undef" /\ value.t # "null" /\ value # S("")

\* FilterClause numbering its placeholder before the value is counted.
FilterClauseOffByOne(column, nparams) == <<Q(column), "=", P(nparams)>>

\* One filter entry's predicate, for the next free placeholder.
FilterClause(column, nparams) == <<Q(column), "=", P(nparams + 1)>>

\* The loop over Object.entries(filters): [clauses, params].
RECURSIVE FilterLoop(_, _, _)
FilterLoop(filters, clauses, params) ==
  IF filters = <<>> THEN [clauses |-> clauses, params |-> params]
  ELSE IF FilterApplies(Head(filters)[2])
    THEN FilterLoop(Tail(filters),
                    Append(clauses, FilterClause(Head(filters)[1], Len(params))),
                    Append(params, Head(filters)[2]))
    ELSE FilterLoop(Tail(filters), clauses, params)

\* String.prototype.toUpperCase on a sort order.
ToUpperCase(str) == CASE str = "asc" -> "ASC" [] str = "desc" -> "DESC" [] OTHER -> str

OrderClause(sortBy, sortOrder) ==
  IF Truthy(sortBy) THEN <<"ORDER BY", Q(sortBy.s), ToUpperCase(sortOrder)>> ELSE <<>>

\* TotalPages with the quotient rounded down instead of up.
TotalPagesFloor(total, limit) == total \div limit

\* Math.ceil(total / limit)
TotalPages(total, limit) == (total + limit - 1) \div limit

\* WhereBuild joining the search clause and the filter clauses with OR.
WhereBuildOr(tableName, q, d) ==
  {LET searched == Truthy(q.search) /\ info.found /\ Len(info.columns) > 0
                   /\ SearchClause(info.columns, 0) # <<>>
       clause0 == IF searched THEN <<"WHERE", "(">> \o SearchClause(info.columns, 0) \o <<")">> ELSE <<>>
       params0 == IF searched THEN <<S("%" \o q.search.s \o "%")>> ELSE <<>>
       loop == FilterLoop(q.filters, <<>>, params0)
       filterClause == Join(loop.clauses, "AND")
       clause == IF Len(q.filters) > 0 /\ Len(loop.clauses) > 0
                   THEN IF clause0 # <<>> THEN clause0 \o <<"OR">> \o filterClause
                        ELSE <<"WHERE">> \o filterClause
                   ELSE clause0
   IN [clause |-> clause, params |-> loop.params,
       sent |-> IF Truthy(q.search) THEN info.sent ELSE <<>>]
   : info \in IF Truthy(q.search) THEN GetTableInfo(tableName, d) ELSE {NoInfo}}

\* The WHERE clause and its parameters: [clause, params, sent].
WhereBuild(tableName, q, d) ==
  {LET searched == Truthy(q.search) /\ info.found /\ Len(info.columns) > 0
                   /\ SearchClause(info.columns, 0) # <<>>
       clause0 == IF searched THEN <<"WHERE", "(">> \o SearchClause(info.columns, 0) \o <<")">> ELSE <<>>
       params0 == IF searched THEN <<S("%" \o q.search.s \o "%")>> ELSE <<>>
       loop == FilterLoop(q.filters, <<>>, params0)
       filterClause == Join(loop.clauses, "AND")
       clause == IF Len(q.filters) > 0 /\ Len(loop.clauses) > 0
                   THEN IF clause0 # <<>> THEN clause0 \o <<"AND">> \o filterClause
                        ELSE <<"WHERE">> \o filterClause
                   ELSE clause0
   IN [clause |-> clause, params |-> loop.params,
       sent |-> IF Truthy(q.search) THEN info.sent ELSE <<>>]
   : info \in IF Truthy(q.search) THEN GetTableInfo(tableName, d) ELSE {NoInfo}}

\* CountQuery without the WHERE clause and its parameters.
CountQueryUnfiltered(tableName, w) ==
  Stmt(<<"SELECT", "COUNT(*)", "as", "count", "FROM", Q(tableName)>>, <<>>)

CountQuery(tableName, w) ==
  Stmt(<<"SELECT", "COUNT(*)", "as", "count", "FROM", Q(tableName)>> \o w.clause, w.params)

\* DataQuery with the offset of the page after the requested one.
DataQueryNextPage(tableName, w, q) ==
  Stmt(<<"SELECT", "*", "FROM", Q(tableName)>> \o w.clause \o OrderClause(q.sortBy, q.sortOrder)
         \o <<"LIMIT", P(Len(w.params) + 1), "OFFSET", P(Len(w.params) + 2)>>,
       w.params \o <<I(q.limit), I(q.page * q.limit)>>)

DataQuery(tableName, w, q) ==
  Stmt(<<"SELECT", "*", "FROM", Q(tableName)>> \o w.clause \o OrderClause(q.sortBy, q.sortOrder)
         \o <<"LIMIT", P(Len(w.params) + 1), "OFFSET", P(Len(w.params) + 2)>>,
       w.params \o <<I(q.limit), I((q.page - 1) * q.limit)>>)

getRecords(tableName, q, d) ==
  UNION {
    UNION {
      IF ~c.ok
        THEN {Result(TRUE, FALSE, <<>>, 0, 0, -1, w.sent \o <<CountQuery(tableName, w)>>, d)}
        ELSE {IF r.ok
                THEN Result(FALSE, TRUE, r.rows, c.n, TotalPages(c.n, q.limit), r.n,
                            w.sent \o <<CountQuery(tableName, w), DataQuery(tableName, w, q)>>, d)
                ELSE Result(TRUE, FALSE, <<>>, 0, 0, -1,
                            w.sent \o <<CountQuery(tableName, w), DataQuery(tableName, w, q)>>, d)
              : r \in Exec(DataQuery(tableName, w, q), d)}
      : c \in Exec(CountQuery(tableName, w), d)}
    : w \in WhereBuild(tableName, q, d)}

GetRecordQuery(tableName, primaryKey, id) ==
  Stmt(<<"SELECT", "*", "FROM", Q(tableName), "WHERE", Q(primaryKey), "=", P(1)>>, <<S(id)>>)

getRecord(tableName, id, d) ==
  UNION {
    IF ~info.found
      THEN {Result(FALSE, FALSE, <<>>, 0, 0, -1, info.sent, d)}
      ELSE {IF r.ok /\ Len(r.rows) > 0
              THEN Result(FALSE, TRUE, <<r.rows[1]>>, 0, 0, r.n,
                          Append(info.sent, GetRecordQuery(tableName, PrimaryKey(info.columns), id)), d)
              ELSE Result(FALSE, FALSE, <<>>, 0, 0, IF r.ok THEN r.n ELSE -1,
                          Append(info.sent, GetRecordQuery(tableName, PrimaryKey(info.columns), id)), d)
            : r \in Exec(GetRecordQuery(tableName, PrimaryKey(info.columns), id), d)}
    : info \in GetTableInfo(tableName, d)}

\* Object.keys(data) and Object.values(data) of a record given as pairs.
Keys(data) == [i \in 1..Len(data) |-> data[i][1]]
Values(data) == [i \in 1..Len(data) |-> data[i][2]]

\* InsertQuery with the values written into the text as literals.
InsertQueryInlined(tableName, data) ==
  Stmt(<<"INSERT INTO", Q(tableName), "(">>
         \o Join([i \in 1..Len(data) |-> <<Q(Keys(data)[i])>>], ",")
         \o <<")", "VALUES", "(">>
         \o Join([i \in 1..Len(data) |-> <<"'" \o Values(data)[i].s \o "'">>], ",")
         \o <<")", "RETURNING", "*">>,
       <<>>)

InsertQuery(tableName, data) ==
  Stmt(<<"INSERT INTO", Q(tableName), "(">>
         \o Join([i \in 1..Len(data) |-> <<Q(Keys(data)[i])>>], ",")
         \o <<")", "VALUES", "(">>
         \o Join([i \in 1..Len(data) |-> <<P(i)>>], ",")
         \o <<")", "RETURNING", "*">>,
       Values(data))

\* resultArray[0] of a statement's rows: undefined when there is none.
createRecord(tableName, data, d) ==
  {IF r.ok
     THEN Result(FALSE, Len(r.rows) > 0, First(r.rows), 0, 0, r.n,
                 <<InsertQuery(tableName, data)>>, r.db)
     ELSE Result(TRUE, FALSE, <<>>, 0, 0, -1, <<InsertQuery(tableName, data)>>, d)
   : r \in Exec(InsertQuery(tableName, data), d)}

\* UpdateQuery binding the first submitted value in place of the id.
UpdateQueryKeyedByValue(tableName, primaryKey, id, data) ==
  Stmt(<<"UPDATE", Q(tableName), "SET">>
         \o Join([i \in 1..Len(data) |-> <<Q(Keys(data)[i]), "=", P(i)>>], ",")
         \o <<"WHERE", Q(primaryKey), "=", P(Len(data) + 1), "RETURNING", "*">>,
       Append(Values(data), IF data = <<>> THEN S(id) ELSE Values(data)[1]))

UpdateQuery(tableName, primaryKey, id, data) ==
  Stmt(<<"UPDATE", Q(tableName), "SET">>
         \o Join([i \in 1..Len(data) |-> <<Q(Keys(data)[i]), "=", P(i)>>], ",")
         \o <<"WHERE", Q(primaryKey), "=", P(Len(data) + 1), "RETURNING", "*">>,
       Append(Values(data), S(id)))

updateRecord(tableName, id, data, d) ==
  UNION {
    IF ~info.found
      THEN {Result(TRUE, FALSE, <<>>, 0, 0, -1, info.sent, d)}
      ELSE {IF r.ok
              THEN Result(FALSE, Len(r.rows) > 0, First(r.rows), 0, 0, r.n,
                          Append(info.sent, UpdateQuery(tableName, PrimaryKey(info.columns), id, data)), r.db)
              ELSE Result(TRUE, FALSE, <<>>, 0, 0, -1,
                          Append(info.sent, UpdateQuery(tableName, PrimaryKey(info.columns), id, data)), d)
            : r \in Exec(UpdateQuery(tableName, PrimaryKey(info.columns), id, data), d)}
    : info \in GetTableInfo(tableName, d)}

\* DeleteQuery binding the key column's name in place of the id.
DeleteQuerySwapped(tableName, primaryKey, id) ==
  Stmt(<<"DELETE FROM", Q(tableName), "WHERE", Q(primaryKey), "=", P(1)>>, <<S(primaryKey)>>)

DeleteQuery(tableName, primaryKey, id) ==
  Stmt(<<"DELETE FROM", Q(tableName), "WHERE", Q(primaryKey), "=", P(1)>>, <<S(id)>>)

deleteRecord(tableName, id, d) ==
  UNION {
    IF ~info.found
      THEN {Result(FALSE, FALSE, <<>>, 0, 0, -1, info.sent, d)}
      ELSE {IF r.ok
              THEN Result(FALSE, TRUE, <<>>, 0, 0, r.n,
                          Append(info.sent, DeleteQuery(tableName, PrimaryKey(info.columns), id)), r.db)
              ELSE Result(FALSE, FALSE, <<>>, 0, 0, -1,
                          Append(info.sent, DeleteQuery(tableName, PrimaryKey(info.columns), id)), d)
            : r \in Exec(DeleteQuery(tableName, PrimaryKey(info.columns), id), d)}
    : info \in GetTableInfo(tableName, d)}

(***************************************************************************)
(* Requests: the inputs the routes are tried on.                           *)
(***************************************************************************)
\* The table names requested: two tables, the view, and a name the
\* database does not have.
TableNames == {"users", "codes", "emails", "ghost"}

\* Sequences of (key, value) pairs with distinct keys: a JSON object in
\* key order.
PairSeqs(valuesOf, maxLen) ==
  UNION {{f \in [1..len -> UNION {{<<k, v>> : v \in valuesOf[k]} : k \in DOMAIN valuesOf}] :
            \A i, j \in 1..len : i # j => f[i][1] # f[j][1]}
         : len \in 0..maxLen}

RecordKeys == {"id", "email", "bogus"}
FieldValues(key) ==
  CASE key = "id" -> {S(x) : x \in IdSet}
    [] key = "email" -> {S("a"), NullV}
    [] OTHER -> {S("a")}
Records == PairSeqs([key \in RecordKeys |-> FieldValues(key)], MaxKeys)

FilterKeys == {"email", "bogus"}
FilterValues(key) == {S("a"), S(""), NullV, NotNullObj}
FilterMaps == PairSeqs([key \in FilterKeys |-> FilterValues(key)], MaxFilters)

\* req.query of a records request, as the strings the URL carries
\* (undefined when a parameter is absent) and the parsed filters object:
\* well-formed paging with every search, sort and filter, and paging and
\* sort-order strings of every kind with none.
RawPages == {UndefV, S("x"), S("0"), S("-1"), S("2"), S("2x")}
RawLimits == {UndefV, S("x"), S("0"), S("101"), S("100"), S("2"), S("2x")}
RawOrders == {UndefV, S("asc"), S("desc"), S("up"), S("DESC")}
QuerySpecs ==
  [page : {S(ToString(n)) : n \in 1..MaxPage}, limit : {S(ToString(n)) : n \in 1..MaxLimit},
   search : {UndefV, S("A")}, sortBy : {UndefV, S("email"), S("bogus")},
   sortOrder : {S("asc"), S("desc")}, filters : FilterMaps]
  \cup
  [page : RawPages, limit : RawLimits, search : {UndefV}, sortBy : {UndefV, S("email")},
   sortOrder : RawOrders, filters : {<<>>}]

DefaultPage == 1
DefaultLimit == 25

\* The object the records route hands to paginationSchema.parse; raw keeps
\* the request's strings.
ParseQuery(rq) ==
  [page |-> OrDefault(ParseInt(rq.page), I(DefaultPage)).n,
   limit |-> OrDefault(ParseInt(rq.limit), I(DefaultLimit)).n,
   search |-> rq.search,
   sortBy |-> rq.sortBy,
   sortOrder |-> OrDefault(rq.sortOrder, S("asc")).s,
   filters |-> rq.filters,
   raw |-> [page |-> rq.page, limit |-> rq.limit, sortOrder |-> rq.sortOrder]]

NoQuery == [page |-> 1, limit |-> 1, search |-> UndefV, sortBy |-> UndefV,
            sortOrder |-> "asc", filters |-> <<>>,
            raw |-> [page |-> UndefV, limit |-> UndefV, sortOrder |-> UndefV]]

\* PaginationOk without the upper bound of limit.
PaginationOkNoMax(q) ==
  /\ q.page >= 1
  /\ q.limit >= 1
  /\ q.sortOrder \in {"asc", "desc"}

\* paginationSchema: page >= 1, 1 <= limit <= 100, sortOrder asc or desc.
PaginationOk(q) ==
  /\ q.page >= 1
  /\ q.limit >= 1 /\ q.limit <= 100
  /\ q.sortOrder \in {"asc", "desc"}

(***************************************************************************)
(* The routes.  resp is the last request with its response: the status     *)
(* code, the kind of body ("page", "record", "message", "error", or        *)
(* "empty" for res.json(undefined)), and what the storage call did.        *)
(***************************************************************************)
Response(op, tableName, id, rec, q, status, kind, r) ==
  [op |-> op, table |-> tableName, id |-> id, rec |-> rec, q |-> q,
   status |-> status, kind |-> kind, rows |-> r.rows, total |-> r.total,
   totalPages |-> r.totalPages, hit |-> r.hit, sent |-> r.sent]

NoResult(d) == Result(FALSE, FALSE, <<>>, 0, 0, -1, <<>>, d)

\* The row of tableName whose primary-key column holds id, if any.
RowsWithKey(tableName, id, d) ==
  IF tableName \in Tables /\ PrimaryKey(Catalog(tableName)) \in ColumnNames(tableName)
    THEN {row \in d[tableName] : row[PrimaryKey(Catalog(tableName))] = S(id)}
    ELSE {}

\* The getTables call in progress: the names still to describe, the
\* descriptors pushed so far, the names the tables query listed, the listed
\* names whose getTableInfo returned null, the statements sent, and whether
\* the tables query failed.
NoJob == [pc |-> "idle", todo |-> <<>>, tables |-> <<>>, listed |-> <<>>,
          skipped |-> {}, sent |-> <<>>, failed |-> FALSE]

\* The storage calls in progress at once, one per caller, and the local
\* variables of each call: whereClause, whereParams, orderClause and total
\* of getRecords and the statement the call is awaiting.
Callers == {1, 2}
NoCall == [op |-> "none", table |-> "", id |-> "", data |-> <<>>, q |-> NoQuery, pc |-> "idle",
           sent |-> <<>>, rows |-> <<>>, total |-> 0, totalPages |-> 0,
           threw |-> FALSE, found |-> FALSE]
NoLocals == [whereClause |-> <<>>, whereParams |-> <<>>, orderClause |-> <<>>, total |-> 0,
             query |-> Stmt(<<>>, <<>>)]

(***************************************************************************)
(* The client: DatabaseInterface with its DataTable, RecordForm and        *)
(* DeleteDialog.  ui holds the component state of pages/database.tsx, the  *)
(* data of the table-info and records queries (loaded FALSE while a query  *)
(* has no data for its key), and pending, whether the records query is to  *)
(* be fetched.  A query whose key changes has no data until it is fetched; *)
(* refetchRecords keeps the data on screen until the new response arrives. *)
(* A request and its response are one step, served by the routes above, so *)
(* that resp is the client's request with its response until the next      *)
(* handler runs.                                                           *)
(***************************************************************************)
\* The page sizes of the select of the data table.  The source offers 25,
\* 50 and 100 rows and starts with 25; they are taken in units of 25 rows,
\* so that the few rows of the model fill more than one page.
PageSizes == <<1, 2, 4>>

NoTableInfo == [loaded |-> FALSE, tableName |-> "", columns |-> <<>>]
NoRecordsData == [loaded |-> FALSE, data |-> <<>>, total |-> 0, page |-> 0, limit |-> 0,
                  totalPages |-> 0]

\* useState(...) of DatabaseInterface and the queries before any fetch.
InitialUi ==
  [selectedTable |-> "", searchTerm |-> "", filters |-> <<>>,
   pagination |-> [page |-> 1, limit |-> PageSizes[1], sortBy |-> UndefV, sortOrder |-> "asc"],
   showDeleteDialog |-> FALSE, deletingRecord |-> <<>>,
   tableInfo |-> NoTableInfo, recordsData |-> NoRecordsData, pending |-> FALSE]

Init ==
  /\ db = [t \in Tables |-> IF t = "codes" THEN {[code |-> S("A")]} ELSE {}]
  /\ resp = Response("none", "", "", <<>>, NoQuery, 0, "none", NoResult(db))
  /\ deleted = [t \in Tables |-> [id \in IdSet |-> "no"]]
  /\ up = TRUE
  /\ job = NoJob
  /\ calls = [p \in Callers |-> NoCall]
  /\ locals = [p \in Callers |-> NoLocals]
  /\ ui = InitialUi

Idle == resp.op = "none" /\ job.pc = "idle"

\* The tables query of getTables.
TablesStmt ==
  Stmt(<<"SELECT", "t.table_name", ",", "column_count",
         "FROM", "information_schema.tables", "t", "LEFT JOIN", "information_schema.columns", "c",
         "WHERE", "t.table_schema", "=", "'public'", "AND", "t.table_type", "=", "'BASE TABLE'",
         "AND", "t.table_name", "NOT LIKE", "'pg_%'", "AND", "t.table_name", "NOT LIKE", "'_pg_%'",
         "AND", "t.table_name", "!=", "'spatial_ref_sys'",
         "GROUP BY", "t.table_name", "ORDER BY", "t.table_name">>,
       <<>>)

\* The TableInfo object getTableInfo returns.
Descriptor(tableName, info) ==
  [tableName |-> tableName, columns |-> info.columns, rowCount |-> info.rowCount]

\* GET /api/database/tables, up to the loop: the tables query.  When it
\* fails getTables returns [] and the route answers with it.
GetTablesStart ==
  /\ IF ~up
       THEN /\ resp' = Response("getTables", "", "", <<>>, NoQuery, 200, "list",
                                 Result(FALSE, TRUE, <<>>, 0, 0, -1, <<TablesStmt>>, db))
            /\ job' = [NoJob EXCEPT !.pc = "done", !.sent = <<TablesStmt>>, !.failed = TRUE]
       ELSE /\ job' = [NoJob EXCEPT !.pc = "loop", !.todo = ListTables, !.listed = ListTables,
                                     !.sent = <<TablesStmt>>]
            /\ UNCHANGED resp
  /\ UNCHANGED <<db, deleted, up, calls, locals, ui>>

\* GetTablesBuild dropping the descriptors pushed so far when one is null.
GetTablesBuildSkipAll(info) ==
  [job EXCEPT !.todo = Tail(@),
              !.tables = IF info.found THEN Append(@, Descriptor(Head(job.todo), info)) ELSE <<>>,
              !.skipped = IF info.found THEN @ ELSE @ \cup {Head(job.todo)},
              !.sent = @ \o info.sent]

\* One iteration of the loop of getTables: the descriptor is pushed unless
\* it is null.
GetTablesBuild(info) ==
  [job EXCEPT !.todo = Tail(@),
              !.tables = IF info.found THEN Append(@, Descriptor(Head(job.todo), info)) ELSE @,
              !.skipped = IF info.found THEN @ ELSE @ \cup {Head(job.todo)},
              !.sent = @ \o info.sent]

GetTablesLoop ==
  /\ job.pc = "loop" /\ job.todo # <<>>
  /\ \E info \in GetTableInfo(Head(job.todo), db) : job' = GetTablesBuild(info)
  /\ UNCHANGED <<db, resp, deleted, up, calls, locals, ui>>

\* The loop of getTables is over: res.json(tables).
GetTablesReturn ==
  /\ job.pc = "loop" /\ job.todo = <<>>
  /\ resp' = Response("getTables", "", "", <<>>, NoQuery, 200, "list",
                       Result(FALSE, TRUE, job.tables, 0, 0, -1, job.sent, db))
  /\ job' = [job EXCEPT !.pc = "done"]
  /\ UNCHANGED <<db, deleted, up, calls, locals, ui>>

\* GET /api/database/tables/:tableName
RouteGetTableInfo(tableName) ==
  /\ \E info \in GetTableInfo(tableName, db) :
       resp' = IF ~info.found
                 THEN Response("getTableInfo", tableName, "", <<>>, NoQuery, 404, "error",
                               Result(FALSE, FALSE, <<>>, 0, 0, -1, info.sent, db))
                 ELSE Response("getTableInfo", tableName, "", <<>>, NoQuery, 200, "descriptor",
                               Result(FALSE, TRUE, <<Descriptor(tableName, info)>>, 0, 0, -1,
                                      info.sent, db))
  /\ UNCHANGED db

\* GET /api/database/tables/:tableName/records
RouteGetRecords(tableName, rq) ==
  /\ LET q == ParseQuery(rq)
     IN IF ~PaginationOk(q)
          THEN resp' = Response("getRecords", tableName, "", <<>>, q, 500, "error", NoResult(db))
          ELSE \E r \in getRecords(tableName, q, db) :
                 resp' = IF r.threw
                           THEN Response("getRecords", tableName, "", <<>>, q, 500, "error", r)
                           ELSE Response("getRecords", tableName, "", <<>>, q, 200, "page", r)
  /\ UNCHANGED db

\* GET /api/database/tables/:tableName/records/:id
RouteGetRecord(tableName, id) ==
  /\ \E r \in getRecord(tableName, id, db) :
       resp' = IF ~r.found
                 THEN Response("getRecord", tableName, id, <<>>, NoQuery, 404, "error", r)
                 ELSE Response("getRecord", tableName, id, <<>>, NoQuery, 200, "record", r)
  /\ UNCHANGED db

\* POST /api/database/tables/:tableName/records
RouteCreateRecord(tableName, data) ==
  /\ \E r \in createRecord(tableName, data, db) :
       /\ resp' = IF r.threw
                    THEN Response("createRecord", tableName, "", data, NoQuery, 500, "error", r)
                    ELSE Response("createRecord", tableName, "", data, NoQuery, 201,
                                  IF r.found THEN "record" ELSE "empty", r)
       /\ db' = r.db

\* PUT /api/database/tables/:tableName/records/:id
RouteUpdateRecord(tableName, id, data) ==
  /\ \E r \in updateRecord(tableName, id, data, db) :
       /\ resp' = IF r.threw
                    THEN Response("updateRecord", tableName, id, data, NoQuery, 500, "error", r)
                    ELSE Response("updateRecord", tableName, id, data, NoQuery, 200,
                                  IF r.found THEN "record" ELSE "empty", r)
       /\ db' = r.db

\* DELETE /api/database/tables/:tableName/records/:id
RouteDeleteRecord(tableName, id) ==
  /\ \E r \in deleteRecord(tableName, id, db) :
       /\ resp' = IF ~r.found
                    THEN Response("deleteRecord", tableName, id, <<>>, NoQuery, 404, "error", r)
                    ELSE Response("deleteRecord", tableName, id, <<>>, NoQuery, 200, "message", r)
       /\ db' = r.db

\* The response has been written; the server takes the next request.
EndRequest ==
  /\ resp.op # "none"
  /\ resp' = Response("none", "", "", <<>>, NoQuery, 0, "none", NoResult(db))
  /\ job' = NoJob
  /\ UNCHANGED <<db, deleted, up, calls, locals, ui>>

\* The connection to the database is lost, or comes back, between two
\* requests or between two awaits of getTables.
Disconnect ==
  /\ up /\ (Idle \/ job.pc = "loop")
  /\ up' = FALSE
  /\ UNCHANGED <<db, resp, deleted, job, calls, locals, ui>>

Reconnect ==
  /\ ~up /\ (Idle \/ job.pc = "loop")
  /\ up' = TRUE
  /\ UNCHANGED <<db, resp, deleted, job, calls, locals, ui>>

\* The server on a database that stays reachable.
Next ==
  \/ Idle /\ GetTablesStart
  \/ GetTablesLoop
  \/ GetTablesReturn
  \/ Idle /\ \E tableName \in TableNames :
       RouteGetTableInfo(tableName) /\ UNCHANGED <<deleted, up, job, calls, locals, ui>>
  \/ Idle /\ \E tableName \in TableNames, rq \in QuerySpecs :
       RouteGetRecords(tableName, rq) /\ UNCHANGED <<deleted, up, job, calls, locals, ui>>
  \/ Idle /\ \E tableName \in TableNames, id \in IdSet :
       RouteGetRecord(tableName, id) /\ UNCHANGED <<deleted, up, job, calls, locals, ui>>
  \/ Idle /\ \E tableName \in TableNames, data \in Records :
       RouteCreateRecord(tableName, data) /\ UNCHANGED <<deleted, up, job, calls, locals, ui>>
  \/ Idle /\ \E tableName \in TableNames, id \in IdSet, data \in Records :
       RouteUpdateRecord(tableName, id, data) /\ UNCHANGED <<deleted, up, job, calls, locals, ui>>
  \/ Idle /\ \E tableName \in TableNames, id \in IdSet :
       RouteDeleteRecord(tableName, id) /\ UNCHANGED <<deleted, up, job, calls, locals, ui>>
  \/ EndRequest

Spec == Init /\ [][Next]_vars

\* The server on a database whose connection comes and goes.
NextFaulty ==
  \/ Disconnect
  \/ Reconnect
  \/ Idle /\ GetTablesStart
  \/ GetTablesLoop
  \/ GetTablesReturn
  \/ Idle /\ \E tableName \in TableNames :
       RouteGetTableInfo(tableName) /\ UNCHANGED <<deleted, up, job, calls, locals, ui>>
  \/ Idle /\ \E tableName \in TableNames, id \in IdSet :
       RouteGetRecord(tableName, id) /\ UNCHANGED <<deleted, up, job, calls, locals, ui>>
  \/ Idle /\ \E tableName \in TableNames, data \in Records :
       RouteCreateRecord(tableName, data) /\ UNCHANGED <<deleted, up, job, calls, locals, ui>>
  \/ Idle /\ \E tableName \in TableNames, id \in IdSet :
       RouteDeleteRecord(tableName, id) /\ UNCHANGED <<deleted, up, job, calls, locals, ui>>
  \/ EndRequest

SpecFaulty == Init /\ [][NextFaulty]_vars

(***************************************************************************)
(* History of deletions, kept for the delete-then-get property.            *)
(* deleted[t][id] is "deleted" once a deleteRecord(t, id) has returned     *)
(* true and, since then, no createRecord has inserted a row with that id   *)
(* and no updateRecord has given a row that id; "rekeyed" when, since the  *)
(* delete, no createRecord inserted such a row but an updateRecord gave a  *)
(* row that id; "no" otherwise.                                            *)
(***************************************************************************)
TrackDeleted ==
  deleted' = [t \in Tables |-> [x \in IdSet |->
    IF resp'.op = "deleteRecord" /\ resp'.status = 200 /\ resp'.table = t /\ resp'.id = x
      THEN "deleted"
    ELSE IF resp'.op = "createRecord" /\ resp'.status = 201 /\ resp'.table = t
            /\ RowsWithKey(t, x, db') # {}
      THEN "no"
    ELSE IF resp'.op = "updateRecord" /\ deleted[t][x] = "deleted" /\ RowsWithKey(t, x, db') # {}
      THEN "rekeyed"
    ELSE deleted[t][x]]]

NextTracked ==
  \/ Idle /\ \E tableName \in TableNames, id \in IdSet :
       RouteGetRecord(tableName, id) /\ TrackDeleted /\ UNCHANGED <<up, job, calls, locals, ui>>
  \/ Idle /\ \E tableName \in TableNames, data \in Records :
       RouteCreateRecord(tableName, data) /\ TrackDeleted /\ UNCHANGED <<up, job, calls, locals, ui>>
  \/ Idle /\ \E tableName \in TableNames, id \in IdSet, data \in Records :
       RouteUpdateRecord(tableName, id, data) /\ TrackDeleted /\ UNCHANGED <<up, job, calls, locals, ui>>
  \/ Idle /\ \E tableName \in TableNames, id \in IdSet :
       RouteDeleteRecord(tableName, id) /\ TrackDeleted /\ UNCHANGED <<up, job, calls, locals, ui>>
  \/ EndRequest

SpecTracked == Init /\ [][NextTracked]_vars

(***************************************************************************)
(* DatabaseStorage under concurrent calls.  A call runs from one await to  *)
(* the next without interruption; at an await any other call may run.  The *)
(* two statements awaited inside getTableInfo are taken as one step: they  *)
(* read only, and a caller uses the columns alone.  orderClause is left    *)
(* out of the locals: it is a function of the arguments.                   *)
(***************************************************************************)
\* Slot with one activation record for all calls.
SlotShared(p) == 1

\* The activation record that holds the local variables of caller p's
\* call: its own.
Slot(p) == p

Loc(p) == locals[Slot(p)]
SetLoc(p, v) == [locals EXCEPT ![Slot(p)] = v]

\* routes.ts 282-292: the search clause once getTableInfo has returned.
AddSearch(loc, q, info) ==
  IF info.found /\ Len(info.columns) > 0
     /\ SearchClause(info.columns, Len(loc.whereParams)) # <<>>
    THEN [loc EXCEPT !.whereClause = <<"WHERE", "(">>
                                       \o SearchClause(info.columns, Len(loc.whereParams)) \o <<")">>,
                     !.whereParams = Append(@, S("%" \o q.search.s \o "%"))]
    ELSE loc

\* routes.ts 295-311: the filter clauses.
AddFilters(loc, q) ==
  LET loop == FilterLoop(q.filters, <<>>, loc.whereParams)
  IN IF Len(q.filters) > 0 /\ Len(loop.clauses) > 0
       THEN [loc EXCEPT !.whereParams = loop.params,
                        !.whereClause = IF @ # <<>> THEN @ \o <<"AND">> \o Join(loop.clauses, "AND")
                                        ELSE <<"WHERE">> \o Join(loop.clauses, "AND")]
       ELSE loc

\* routes.ts 295-321: up to the await of the count query.
BuildCount(loc, tableName, q) ==
  [AddFilters(loc, q) EXCEPT
     !.query = CountQuery(tableName, [clause |-> AddFilters(loc, q).whereClause,
                                      params |-> AddFilters(loc, q).whereParams])]

\* routes.ts 323-335: total, whereParams.push(limit, offset), up to the
\* await of the data query.
BuildData(loc, tableName, q, count) ==
  [loc EXCEPT !.total = count,
              !.whereParams = @ \o <<I(q.limit), I((q.page - 1) * q.limit)>>,
              !.query = DataQuery(tableName, [clause |-> loc.whereClause, params |-> loc.whereParams], q)]

\* PageResult taking total from the page of rows.
PageResultRecount(c, total, rows) ==
  [c EXCEPT !.rows = rows, !.total = Len(rows), !.totalPages = TotalPages(Len(rows), c.q.limit),
            !.found = TRUE]

\* routes.ts 338-344: the object getRecords returns.
PageResult(c, total, rows) ==
  [c EXCEPT !.rows = rows, !.total = total, !.totalPages = TotalPages(total, c.q.limit),
            !.found = TRUE]

\* The arguments of the concurrent calls.
ConcurrentTables == {"users", "codes"}
ConcurrentQueries ==
  {ParseQuery(rq) : rq \in [page : {S("1")}, limit : {S("1")}, search : {UndefV, S("A")},
                            sortBy : {UndefV}, sortOrder : {S("asc")},
                            filters : {<<>>, <<<<"email", S("a")>>>>}]}
ConcurrentRecords == {<<<<"email", S("a")>>>>, <<<<"id", S("1")>>, <<"email", NullV>>>>}

CallGetRecords(p, tableName, q) ==
  /\ calls[p].pc = "idle"
  /\ calls' = [calls EXCEPT ![p] = [NoCall EXCEPT !.op = "getRecords", !.table = tableName, !.q = q,
                                                   !.pc = IF Truthy(q.search) THEN "info" ELSE "count"]]
  /\ locals' = SetLoc(p, IF Truthy(q.search) THEN NoLocals ELSE BuildCount(NoLocals, tableName, q))
  /\ UNCHANGED <<db, resp, deleted, up, job, ui>>

CallCreateRecord(p, tableName, data) ==
  /\ calls[p].pc = "idle"
  /\ calls' = [calls EXCEPT ![p] = [NoCall EXCEPT !.op = "createRecord", !.table = tableName,
                                                   !.data = data, !.pc = "exec"]]
  /\ locals' = SetLoc(p, [NoLocals EXCEPT !.query = InsertQuery(tableName, data)])
  /\ UNCHANGED <<db, resp, deleted, up, job, ui>>

CallUpdateRecord(p, tableName, id, data) ==
  /\ calls[p].pc = "idle"
  /\ calls' = [calls EXCEPT ![p] = [NoCall EXCEPT !.op = "updateRecord", !.table = tableName,
                                                   !.id = id, !.data = data, !.pc = "info"]]
  /\ locals' = SetLoc(p, NoLocals)
  /\ UNCHANGED <<db, resp, deleted, up, job, ui>>

CallDeleteRecord(p, tableName, id) ==
  /\ calls[p].pc = "idle"
  /\ calls' = [calls EXCEPT ![p] = [NoCall EXCEPT !.op = "deleteRecord", !.table = tableName,
                                                   !.id = id, !.pc = "info"]]
  /\ locals' = SetLoc(p, NoLocals)
  /\ UNCHANGED <<db, resp, deleted, up, job, ui>>

\* getTableInfo has returned to the call that awaited it.
ResumeInfo(p) ==
  /\ calls[p].pc = "info"
  /\ \E info \in GetTableInfo(calls[p].table, db) :
       LET c == calls[p]
       IN IF c.op = "getRecords"
            THEN /\ calls' = [calls EXCEPT ![p].sent = @ \o info.sent, ![p].pc = "count"]
                 /\ locals' = SetLoc(p, BuildCount(AddSearch(Loc(p), c.q, info), c.table, c.q))
          ELSE IF ~info.found
            THEN /\ calls' = [calls EXCEPT ![p].sent = @ \o info.sent, ![p].pc = "done",
                                           ![p].threw = (c.op = "updateRecord")]
                 /\ UNCHANGED locals
          ELSE /\ calls' = [calls EXCEPT ![p].sent = @ \o info.sent, ![p].pc = "exec"]
               /\ locals' = SetLoc(p, [Loc(p) EXCEPT !.query =
                      IF c.op = "updateRecord"
                        THEN UpdateQuery(c.table, PrimaryKey(info.columns), c.id, c.data)
                        ELSE DeleteQuery(c.table, PrimaryKey(info.columns), c.id)])
  /\ UNCHANGED <<db, resp, deleted, up, job, ui>>

\* The count query of getRecords has been executed.
ResumeCount(p) ==
  /\ calls[p].pc = "count"
  /\ \E out \in Exec(Loc(p).query, db) :
       IF ~out.ok
         THEN /\ calls' = [calls EXCEPT ![p].sent = Append(@, Loc(p).query), ![p].pc = "done",
                                        ![p].threw = TRUE]
              /\ UNCHANGED locals
         ELSE /\ calls' = [calls EXCEPT ![p].sent = Append(@, Loc(p).query), ![p].pc = "data"]
              /\ locals' = SetLoc(p, BuildData(Loc(p), calls[p].table, calls[p].q, out.n))
  /\ UNCHANGED <<db, resp, deleted, up, job, ui>>

\* The data query of getRecords has been executed.
ResumeData(p) ==
  /\ calls[p].pc = "data"
  /\ \E out \in Exec(Loc(p).query, db) :
       calls' = [calls EXCEPT ![p] =
                   IF out.ok
                     THEN PageResult([calls[p] EXCEPT !.sent = Append(@, Loc(p).query), !.pc = "done"],
                                     Loc(p).total, out.rows)
                     ELSE [calls[p] EXCEPT !.sent = Append(@, Loc(p).query), !.pc = "done",
                                           !.threw = TRUE]]
  /\ UNCHANGED <<db, resp, deleted, up, job, locals, ui>>

\* The INSERT, UPDATE or DELETE statement of a call has been executed.
ResumeExec(p) ==
  /\ calls[p].pc = "exec"
  /\ \E out \in Exec(Loc(p).query, db) :
       /\ db' = out.db
       /\ calls' = [calls EXCEPT ![p] =
                      [calls[p] EXCEPT !.sent = Append(@, Loc(p).query), !.pc = "done",
                                       !.threw = ~out.ok /\ calls[p].op # "deleteRecord",
                                       !.found = out.ok /\ (calls[p].op = "deleteRecord" \/ Len(out.rows) > 0),
                                       !.rows = First(out.rows)]]
  /\ UNCHANGED <<resp, deleted, up, job, locals, ui>>

\* The call has returned to its caller.
Return(p) ==
  /\ calls[p].pc = "done"
  /\ calls' = [calls EXCEPT ![p] = NoCall]
  /\ locals' = SetLoc(p, NoLocals)
  /\ UNCHANGED <<db, resp, deleted, up, job, ui>>

NextConcurrent ==
  \/ \E p \in Callers, tableName \in ConcurrentTables, q \in ConcurrentQueries :
       CallGetRecords(p, tableName, q)
  \/ \E p \in Callers, tableName \in ConcurrentTables, data \in ConcurrentRecords :
       CallCreateRecord(p, tableName, data)
  \/ \E p \in Callers, tableName \in ConcurrentTables, id \in IdSet, data \in ConcurrentRecords :
       CallUpdateRecord(p, tableName, id, data)
  \/ \E p \in Callers, tableName \in ConcurrentTables, id \in IdSet :
       CallDeleteRecord(p, tableName, id)
  \/ \E p \in Callers : ResumeInfo(p)
  \/ \E p \in Callers : ResumeCount(p)
  \/ \E p \in Callers : ResumeData(p)
  \/ \E p \in Callers : ResumeExec(p)
  \/ \E p \in Callers : Return(p)

SpecConcurrent == Init /\ [][NextConcurrent]_vars

(***************************************************************************)
(* The client's handlers.  Each handler runs to its end; a request it      *)
(* sends is answered by the route in the same step.  The handlers of the   *)
(* data table are there once the table info is loaded, the rows and the    *)
(* column headers once the records query is not loading, and nothing       *)
(* behind the delete dialog while it is open.                              *)
(***************************************************************************)
\* The tables the sidebar lists: the names of GET /api/database/tables.
SidebarTables == Range(ListTables)

\* `${v}` and the property key v is converted to.
TemplateString(v) ==
  CASE v.t = "str" -> v.s
    [] v.t = "int" -> ToString(v.n)
    [] v.t = "null" -> "null"
    [] v.t = "undef" -> "undefined"
    [] v.t = "nan" -> "NaN"
    [] OTHER -> "[object Object]"

\* record[key]
RecordField(record, key) == IF key \in DOMAIN record THEN record[key] ELSE UndefV

\* Object.keys(record) of a row of SELECT *: the columns in table order.
ObjectKeys(tableName) == [i \in 1..Len(Catalog(tableName)) |-> Catalog(tableName)[i].name]

\* delete-dialog.tsx 41: record.id || Object.keys(record)[0]
DeletePrimaryKey(record, tableName) ==
  OrDefault(RecordField(record, "id"), S(ObjectKeys(tableName)[1]))

\* delete-dialog.tsx 42: record[primaryKey]
DeleteRecordId(record, tableName) ==
  RecordField(record, TemplateString(DeletePrimaryKey(record, tableName)))

\* The key of the records query.
QueryKey(u) == <<u.selectedTable, u.pagination, u.searchTerm, u.filters>>

\* The query string of the records request for the key: page, limit,
\* search, sortBy, sortOrder and the filters (absent when there are none,
\* else the JSON text the route parses back).
RecordsRequest(u) ==
  [page |-> S(ToString(u.pagination.page)), limit |-> S(ToString(u.pagination.limit)),
   search |-> S(u.searchTerm), sortBy |-> u.pagination.sortBy,
   sortOrder |-> S(u.pagination.sortOrder), filters |-> u.filters]

\* The state v the handler of state u has set, seen by the queries: a
\* query whose key changed has no data and is fetched.
Rerender(u, v) ==
  [v EXCEPT !.tableInfo = IF v.selectedTable = u.selectedTable THEN @ ELSE NoTableInfo,
            !.recordsData = IF QueryKey(v) = QueryKey(u) THEN @ ELSE NoRecordsData,
            !.pending = IF QueryKey(v) = QueryKey(u) THEN @ ELSE TRUE]

\* isLoading of the records query.
RecordsLoading(u) == u.pending /\ ~u.recordsData.loaded

\* PageButtons with the window centred on the page whatever the page.
PageButtonsCentred(page, totalPages) ==
  [k \in 1..(IF totalPages < 5 THEN totalPages ELSE 5) |->
     IF totalPages <= 5 THEN k ELSE page - 2 + (k - 1)]

\* data-table.tsx 339-349: the numbers of the page buttons.
PageButtons(page, totalPages) ==
  [k \in 1..(IF totalPages < 5 THEN totalPages ELSE 5) |->
     IF totalPages <= 5 THEN k
     ELSE IF page <= 3 THEN k
     ELSE IF page >= totalPages - 2 THEN totalPages - 4 + (k - 1)
     ELSE page - 2 + (k - 1)]

\* data-table.tsx 364: whether the last-page button is shown.
LastPageButton(page, totalPages) == totalPages > 5 /\ page < totalPages - 2

\* data-table.tsx 318-390: the pages the enabled buttons of the
\* pagination bar hand to onPageChange.
BarPages(rd) ==
  IF ~(rd.loaded /\ rd.totalPages > 1) THEN {}
  ELSE (IF rd.page <= 1 THEN {} ELSE {rd.page - 1})
       \cup Range(PageButtons(rd.page, rd.totalPages))
       \cup (IF LastPageButton(rd.page, rd.totalPages) THEN {rd.totalPages} ELSE {})
       \cup (IF rd.page >= rd.totalPages THEN {} ELSE {rd.page + 1})

\* The pagination updaters of the handlers (setPagination(prev => ...)).
SelectUpdate(prev) == [prev EXCEPT !.page = 1]
SearchUpdate(prev) == [prev EXCEPT !.page = 1]
FilterUpdate(prev) == [prev EXCEPT !.page = 1]
\* SortUpdate leaving the page where it is.
SortUpdateKeepPage(prev, column) ==
  [prev EXCEPT !.sortBy = S(column),
               !.sortOrder = IF prev.sortBy = S(column) /\ prev.sortOrder = "asc" THEN "desc" ELSE "asc"]

SortUpdate(prev, column) ==
  [prev EXCEPT !.sortBy = S(column),
               !.sortOrder = IF prev.sortBy = S(column) /\ prev.sortOrder = "asc" THEN "desc" ELSE "asc",
               !.page = 1]
PageUpdate(prev, page) == [prev EXCEPT !.page = page]
LimitUpdate(prev, limit) == [prev EXCEPT !.limit = limit, !.page = 1]

\* A handler that sends no request: it runs when the response to the last
\* request has been written.
ClientFrame ==
  /\ resp' = Response("none", "", "", <<>>, NoQuery, 0, "none", NoResult(db))
  /\ UNCHANGED <<db, deleted, up, job, calls, locals>>

HandleTableSelect(tableName) ==
  /\ ~ui.showDeleteDialog
  /\ ui' = Rerender(ui, [ui EXCEPT !.selectedTable = tableName,
                                   !.pagination = SelectUpdate(@),
                                   !.searchTerm = "",
                                   !.filters = <<>>])
  /\ ClientFrame

HandleSearch(term) ==
  /\ ui.tableInfo.loaded /\ ~ui.showDeleteDialog
  /\ ui' = Rerender(ui, [ui EXCEPT !.searchTerm = term, !.pagination = SearchUpdate(@)])
  /\ ClientFrame

HandleFilter(newFilters) ==
  /\ ui.tableInfo.loaded /\ ~ui.showDeleteDialog
  /\ ui' = Rerender(ui, [ui EXCEPT !.filters = newFilters, !.pagination = FilterUpdate(@)])
  /\ ClientFrame

HandleSort(column) ==
  /\ ui.tableInfo.loaded /\ ~RecordsLoading(ui) /\ ~ui.showDeleteDialog
  /\ ui' = Rerender(ui, [ui EXCEPT !.pagination = SortUpdate(@, column)])
  /\ ClientFrame

HandlePageChange(page) ==
  /\ ui.tableInfo.loaded /\ ~ui.showDeleteDialog
  /\ ui' = Rerender(ui, [ui EXCEPT !.pagination = PageUpdate(@, page)])
  /\ ClientFrame

HandleLimitChange(limit) ==
  /\ ui.tableInfo.loaded /\ ~ui.showDeleteDialog
  /\ ui' = Rerender(ui, [ui EXCEPT !.pagination = LimitUpdate(@, limit)])
  /\ ClientFrame

HandleDeleteRecord(record) ==
  /\ ui.tableInfo.loaded /\ ~RecordsLoading(ui) /\ ~ui.showDeleteDialog
  /\ ui' = [ui EXCEPT !.deletingRecord = <<record>>, !.showDeleteDialog = TRUE]
  /\ ClientFrame

\* database.tsx 95-99
HandleRecordDeleted(u) ==
  [u EXCEPT !.showDeleteDialog = FALSE, !.deletingRecord = <<>>, !.pending = TRUE]

\* database.tsx 88-93
HandleRecordSaved(u) == [u EXCEPT !.pending = TRUE]

\* handleDelete of the dialog: the mutation sends the DELETE request and,
\* when the route answers with success, calls onDeleted.
ConfirmDelete ==
  /\ ui.showDeleteDialog /\ ui.deletingRecord # <<>> /\ ui.selectedTable # ""
  /\ LET record == ui.deletingRecord[1]
         recordId == TemplateString(DeleteRecordId(record, ui.selectedTable))
     IN /\ RouteDeleteRecord(ui.selectedTable, recordId)
        /\ ui' = IF resp'.status = 200 THEN HandleRecordDeleted(ui) ELSE ui
  /\ UNCHANGED <<deleted, up, job, calls, locals>>

\* record-form.tsx 27-50, 120-126: the columns of the form of a new
\* record, without the keys the database generates.
FormColumns(columns) == SelectSeq(columns, LAMBDA c : ~(c.primaryKey /\ Truthy(c.defaultValue)))

\* record-form.tsx 128-159: the value submitted for what the input holds.
\* The columns of the catalog are of string types, the default of the
\* switch, and of no boolean, numeric or JSON type.
FormValue(column, value) ==
  IF value = "" /\ column.nullable THEN NullV
  ELSE IF column.type \in {"integer", "bigint"}
    THEN (IF value = "" THEN NullV ELSE ParseInt(S(value)))
  ELSE S(value)

\* record-form.tsx 114-167: submitData of a new record.
SubmitData(columns, formData) ==
  [i \in 1..Len(FormColumns(columns)) |->
     <<FormColumns(columns)[i].name,
       FormValue(FormColumns(columns)[i], formData[FormColumns(columns)[i].name])>>]

\* What the user types into an input of the form, and the forms filled in.
TypedValues == {"B"}
FormInputs(columns) ==
  [{FormColumns(columns)[i].name : i \in 1..Len(FormColumns(columns))} -> TypedValues]

\* The form of a new record is submitted: the mutation sends the POST
\* request and, when the route answers with success, calls onSave.
SubmitNewRecord(formData) ==
  /\ ui.tableInfo.loaded /\ ~ui.showDeleteDialog
  /\ RouteCreateRecord(ui.tableInfo.tableName, SubmitData(ui.tableInfo.columns, formData))
  /\ ui' = IF resp'.status = 201 THEN HandleRecordSaved(ui) ELSE ui
  /\ UNCHANGED <<deleted, up, job, calls, locals>>

\* The table-info query of the selected table is answered.
FetchTableInfo ==
  /\ ui.selectedTable # "" /\ ~ui.tableInfo.loaded
  /\ RouteGetTableInfo(ui.selectedTable)
  /\ ui' = [ui EXCEPT !.tableInfo =
                        IF resp'.status = 200
                          THEN [loaded |-> TRUE, tableName |-> resp'.rows[1].tableName,
                                columns |-> resp'.rows[1].columns]
                          ELSE @]
  /\ UNCHANGED <<deleted, up, job, calls, locals>>

\* The records query is answered for its key.
FetchRecords ==
  /\ ui.selectedTable # "" /\ ui.pending
  /\ RouteGetRecords(ui.selectedTable, RecordsRequest(ui))
  /\ ui' = [ui EXCEPT !.pending = FALSE,
                      !.recordsData =
                        IF resp'.status = 200
                          THEN [loaded |-> TRUE, data |-> resp'.rows, total |-> resp'.total,
                                page |-> resp'.q.page, limit |-> resp'.q.limit,
                                totalPages |-> resp'.totalPages]
                          ELSE @]
  /\ UNCHANGED <<deleted, up, job, calls, locals>>

\* What the user types into the search box and sets in the filter dialog.
SearchTerms == {"", "B"}
DialogFilters(columns) ==
  {<<>>} \cup {<<<<columns[i].name, S("B")>>>> : i \in 1..Len(columns)}

NextClient ==
  \/ \E tableName \in SidebarTables : HandleTableSelect(tableName)
  \/ \E term \in SearchTerms : HandleSearch(term)
  \/ \E newFilters \in DialogFilters(ui.tableInfo.columns) : HandleFilter(newFilters)
  \/ \E i \in 1..Len(ui.tableInfo.columns) : HandleSort(ui.tableInfo.columns[i].name)
  \/ \E page \in BarPages(ui.recordsData) : HandlePageChange(page)
  \/ \E i \in 1..Len(PageSizes) : HandleLimitChange(PageSizes[i])
  \/ \E record \in Range(ui.recordsData.data) : HandleDeleteRecord(record)
  \/ ConfirmDelete
  \/ \E formData \in FormInputs(ui.tableInfo.columns) : SubmitNewRecord(formData)
  \/ FetchTableInfo
  \/ FetchRecords

SpecClient == Init /\ [][NextClient]_vars

(***************************************************************************)
(* The pagination bar alone, on the records responses of a table of any    *)
(* size: page page of totalPages pages of limit rows.  The rows of the     *)
(* page are left out, the bar does not read them.  A click on a button of  *)
(* the bar requests its page, and the response shows that page.            *)
(***************************************************************************)
MaxTotalPages == 9

PagerResponses ==
  {[loaded |-> TRUE, data |-> <<>>, total |-> totalPages * PageSizes[i], page |-> page,
    limit |-> PageSizes[i], totalPages |-> totalPages]
   : i \in 1..Len(PageSizes), totalPages \in 1..MaxTotalPages, page \in 1..MaxTotalPages}

InitPager ==
  /\ db = [t \in Tables |-> IF t = "codes" THEN {[code |-> S("A")]} ELSE {}]
  /\ resp = Response("none", "", "", <<>>, NoQuery, 0, "none", NoResult(db))
  /\ deleted = [t \in Tables |-> [id \in IdSet |-> "no"]]
  /\ up = TRUE
  /\ job = NoJob
  /\ calls = [p \in Callers |-> NoCall]
  /\ locals = [p \in Callers |-> NoLocals]
  /\ \E rd \in PagerResponses :
       /\ rd.page <= rd.totalPages
       /\ ui = [InitialUi EXCEPT !.selectedTable = "codes",
                                 !.tableInfo = [loaded |-> TRUE, tableName |-> "codes",
                                                columns |-> Catalog("codes")],
                                 !.pagination = [@ EXCEPT !.page = rd.page, !.limit = rd.limit],
                                 !.recordsData = rd]

PagerClick(page) ==
  /\ ui' = [ui EXCEPT !.pagination = PageUpdate(@, page), !.recordsData.page = page]
  /\ UNCHANGED <<db, resp, deleted, up, job, calls, locals>>

NextPager == \E page \in BarPages(ui.recordsData) : PagerClick(page)

SpecPager == InitPager /\ [][NextPager]_vars

(***************************************************************************)
(* Properties.                                                             *)
(***************************************************************************)
\* The fixed lexemes of the statement templates in routes.ts.
Keywords ==
  {"SELECT", "COUNT(*)", "as", "count", "FROM", "WHERE", "(", ")", "ILIKE", "OR", "AND",
   "=", "ORDER BY", "ASC", "DESC", "LIMIT", "OFFSET", "*", "INSERT INTO", "VALUES", ",",
   "RETURNING", "UPDATE", "SET", "DELETE FROM"}
  \cup {tok \in Range(CatalogStmt("").text) : ~IsPlaceholder(tok)}
  \cup Range(TablesStmt.text)

Lexemes(sent) == UNION {Range(sent[i].text) : i \in 1..Len(sent)}

\* The count query of a records request: the last COUNT(*) statement sent.
CountQueryOf(r) ==
  r.sent[CHOOSE i \in 1..Len(r.sent) :
           /\ r.sent[i].text[2] = "COUNT(*)"
           /\ \A j \in (i + 1)..Len(r.sent) : r.sent[j].text[2] # "COUNT(*)"]

\* The INSERT and UPDATE statements among those sent.
WritesSent(r) ==
  {i \in 1..Len(r.sent) : r.sent[i].text[1] \in {"INSERT INTO", "UPDATE"}}

\* toks[i], toks[i+1], ... is the lexeme sequence pat.
OccursAt(toks, i, pat) ==
  /\ i + Len(pat) - 1 <= Len(toks)
  /\ \A k \in 1..Len(pat) : toks[i + k - 1] = pat[k]
Occurrences(toks, pat) == {i \in 1..Len(toks) : OccursAt(toks, i, pat)}

\* The names a records request asks to sort or filter by.
RequestedNames(q) ==
  (IF Truthy(q.sortBy) THEN {q.sortBy.s} ELSE {}) \cup {q.filters[i][1] : i \in 1..Len(q.filters)}

\* C1: in getRecords, a sortBy value or filter key that is not a column of
\* the table's descriptor never appears in the text of a statement sent to
\* the database.
C1_IdentifierSafety ==
  resp.op = "getRecords" =>
    \A name \in RequestedNames(resp.q) \ ColumnNames(resp.table) :
      Q(name) \notin Lexemes(resp.sent)

\* The parameter list the statements of a request must carry its values in.
ValuesBound(r) ==
  \A i \in 1..Len(r.sent) :
    LET st == r.sent[i]
    IN CASE st.text[1] = "INSERT INTO" -> st.params = Values(r.rec)
         [] st.text[1] = "UPDATE" -> st.params = Append(Values(r.rec), S(r.id))
         [] st.text[1] = "DELETE FROM" -> st.params = <<S(r.id)>>
         [] r.op = "getRecord" /\ st.text[2] = "*" -> st.params = <<S(r.id)>>
         [] r.op = "getRecords" /\ st.text[2] = "*" ->
              /\ Len(st.params) >= 2
              /\ st.params[Len(st.params) - 1] = I(r.q.limit)
              /\ st.params[Len(st.params)] = I((r.q.page - 1) * r.q.limit)
              /\ \A k \in 1..Len(r.q.filters) :
                   FilterApplies(r.q.filters[k][2]) => r.q.filters[k][2] \in Range(st.params)
              /\ "ILIKE" \in Range(st.text) => S("%" \o r.q.search.s \o "%") \in Range(st.params)
         [] OTHER -> TRUE

\* C2: in every statement built by getRecords, getRecord, createRecord,
\* updateRecord and deleteRecord the text consists of template keywords,
\* quoted identifiers and placeholders of the statement's parameter list
\* only, and the caller's values (search term, filter values, limit, offset,
\* record id, record field values) are in the parameter list.
C2_ValuesAreBound ==
  /\ \A i \in 1..Len(resp.sent) : \A k \in 1..Len(resp.sent[i].text) :
       LET tok == resp.sent[i].text[k]
       IN \/ tok \in Keywords
          \/ IsIdent(tok)
          \/ IsPlaceholder(tok) /\ PlaceholderIndex(tok, resp.sent[i].params) # 0
  /\ ValuesBound(resp)

\* C2 witness: a records request with a search term and a filter value has
\* returned rows.
C2_Witness ==
  /\ resp.op = "getRecords" /\ resp.status = 200 /\ Len(resp.rows) > 0
  /\ "ILIKE" \in Lexemes(resp.sent)
  /\ \E k \in 1..Len(resp.q.filters) : FilterApplies(resp.q.filters[k][2])

\* C3: createRecord and updateRecord on a record with a key outside the
\* table's descriptor send no INSERT or UPDATE statement and fail with
\* InvalidRecord, a client error.
C3_RecordKeysValidated ==
  /\ resp.op \in {"createRecord", "updateRecord"}
  /\ resp.table \in Tables
  /\ \E i \in 1..Len(resp.rec) : resp.rec[i][1] \notin ColumnNames(resp.table)
  => WritesSent(resp) = {} /\ resp.status \in 400..499

\* C4: deleteRecord on an existing table with an id that matches no row
\* answers 404.
C4_DeleteMissingIsNotFound ==
  resp.op = "deleteRecord" /\ resp.table \in Tables /\ resp.hit = 0 => resp.status = 404

\* C5 as stated: once deleteRecord(table, id) has succeeded and no record
\* with that id has been inserted since, getRecord(table, id) returns null
\* (404).
C5_DeleteThenGet ==
  /\ resp.op = "getRecord"
  /\ resp.table \in Tables
  /\ deleted[resp.table][resp.id] \in {"deleted", "rekeyed"}
  => resp.status = 404 /\ resp.rows = <<>>

\* C5 amended: once deleteRecord(table, id) has succeeded and since then no
\* record with that id has been inserted and no updateRecord has set a
\* row's primary-key column to that id, getRecord(table, id) returns null
\* (404).
C5_DeleteThenGetAmended ==
  /\ resp.op = "getRecord"
  /\ resp.table \in Tables
  /\ deleted[resp.table][resp.id] = "deleted"
  => resp.status = 404 /\ resp.rows = <<>>

\* C5 witness: getRecord of a deleted id has answered while the table holds
\* another row.
C5_Witness ==
  /\ resp.op = "getRecord"
  /\ resp.table \in Tables
  /\ deleted[resp.table][resp.id] = "deleted"
  /\ db[resp.table] # {}
  /\ resp.status = 404

\* C6: updateRecord with an id that matches no row answers 404, never a
\* success status with an empty body.
C6_UpdateMissingIsNotFound ==
  resp.op = "updateRecord" /\ resp.hit = 0 => resp.status = 404 /\ resp.kind # "empty"

\* C7: an empty record passed to createRecord or updateRecord is a client
\* error and no INSERT or UPDATE statement is sent for it.
C7_EmptyRecordRejected ==
  resp.op \in {"createRecord", "updateRecord"} /\ resp.rec = <<>>
  => WritesSent(resp) = {} /\ resp.status \in 400..499

\* C8: a getRecords result has totalPages = ceil(total / limit), 0 when
\* total is 0, and at most limit records.
C8_TotalPages ==
  resp.op = "getRecords" /\ resp.status = 200 =>
    /\ resp.totalPages * resp.q.limit >= resp.total
    /\ (resp.totalPages - 1) * resp.q.limit < resp.total
    /\ resp.total = 0 => resp.totalPages = 0
    /\ Len(resp.rows) <= resp.q.limit

\* C8 witness: a result whose total is not a multiple of limit, with rows.
C8_Witness ==
  /\ resp.op = "getRecords" /\ resp.status = 200
  /\ resp.total % resp.q.limit # 0
  /\ resp.q.limit > 1
  /\ Len(resp.rows) > 0

\* C9: every filter entry of getRecords gives its predicate in the WHERE
\* clause: IS NULL for null, IS NOT NULL for the not-null marker, none for
\* an empty string or undefined, one equality on a bound parameter
\* otherwise.
C9_FilterPredicates ==
  resp.op = "getRecords" /\ resp.sent # <<>> =>
    LET st == CountQueryOf(resp)
        w == WhereToks(st.text)
    IN \A k \in 1..Len(resp.q.filters) :
         LET col == resp.q.filters[k][1]
             v == resp.q.filters[k][2]
             eqs == Occurrences(w, <<Q(col), "=">>)
         IN CASE v = NullV -> Occurrences(w, <<Q(col), "IS NULL">>) # {} /\ eqs = {}
              [] v = NotNullObj -> Occurrences(w, <<Q(col), "IS NOT NULL">>) # {} /\ eqs = {}
              [] v = S("") \/ v = UndefV -> eqs = {}
              [] OTHER -> /\ Cardinality(eqs) = 1
                          /\ \A i \in eqs : /\ i + 2 <= Len(w)
                                            /\ PlaceholderIndex(w[i + 2], st.params) # 0
                                            /\ st.params[PlaceholderIndex(w[i + 2], st.params)] = v

\* The rows of the request's table whose column col holds the value v.
RowsHolding(r, col, v) ==
  IF r.table \in Tables /\ col \in ColumnNames(r.table)
    THEN {row \in db[r.table] : row[col] = v}
    ELSE {}

\* C10: when the table holds a row whose column col has the non-empty string
\* value v, getRecords with the single filter {col: v}, no search, a sort
\* column of the table (or none) and a first page as large as the number of
\* matches succeeds, returns every such row, and total is at least 1.
C10_FilterRoundTrip ==
  /\ resp.op = "getRecords"
  /\ ~Truthy(resp.q.search)
  /\ Truthy(resp.q.sortBy) => resp.q.sortBy.s \in ColumnNames(resp.table)
  /\ Len(resp.q.filters) = 1
  /\ resp.q.filters[1][2].t = "str" /\ resp.q.filters[1][2].s # ""
  /\ RowsHolding(resp, resp.q.filters[1][1], resp.q.filters[1][2]) # {}
  /\ resp.q.page = 1
  /\ resp.q.limit >= Cardinality(RowsHolding(resp, resp.q.filters[1][1], resp.q.filters[1][2]))
  => /\ resp.status = 200
     /\ RowsHolding(resp, resp.q.filters[1][1], resp.q.filters[1][2]) \subseteq Range(resp.rows)
     /\ resp.total >= 1

\* C10 witness: such a request has returned the matching row of a table
\* that also holds a row that does not match.
C10_Witness ==
  /\ resp.op = "getRecords" /\ resp.status = 200
  /\ resp.table \in Tables
  /\ ~Truthy(resp.q.search)
  /\ Len(resp.q.filters) = 1
  /\ resp.q.filters[1][2].t = "str" /\ resp.q.filters[1][2].s # ""
  /\ resp.q.page = 1 /\ resp.q.limit >= resp.total
  /\ Len(resp.rows) = 1
  /\ resp.rows[1][resp.q.filters[1][1]] = resp.q.filters[1][2]
  /\ Cardinality(db[resp.table]) = 2

\* The data query of a records request: the SELECT * statement sent, if any.
DataQueriesOf(r) == {i \in 1..Len(r.sent) : r.sent[i].text[2] = "*"}

\* The data types information_schema reports for text, varchar and the char
\* family.
TextualTypes == {"text", "character varying", "character"}
TextualColumns(tableName) ==
  {Catalog(tableName)[i].name :
     i \in {j \in 1..Len(Catalog(tableName)) : Catalog(tableName)[j].type \in TextualTypes}}

\* C11: a records request with a search term on a table with a descriptor
\* has in its WHERE clause exactly one ILIKE predicate for every column of
\* a textual type (text, varchar, the char family), all on the parameter
\* that holds the search pattern and joined by OR; with no textual column it
\* has no ILIKE predicate.
C11_SearchEveryTextColumn ==
  /\ resp.op = "getRecords" /\ PaginationOk(resp.q)
  /\ Truthy(resp.q.search)
  /\ resp.table \in DOMAIN CatalogOf
  => LET st == CountQueryOf(resp)
         w == WhereToks(st.text)
         cols == TextualColumns(resp.table)
     IN /\ \A col \in cols : Cardinality(Occurrences(w, <<Q(col), "ILIKE", P(1)>>)) = 1
        /\ Cardinality(Occurrences(w, <<"ILIKE">>)) = Cardinality(cols)
        /\ cols # {} => /\ Cardinality(Occurrences(w, <<"OR">>)) = Cardinality(cols) - 1
                        /\ Len(st.params) >= 1
                        /\ st.params[1] = S("%" \o resp.q.search.s \o "%")

\* C12: a records request with valid paging and a sort column of the table
\* (or none) succeeds whatever its sortOrder string is; its data query has
\* an ORDER BY clause exactly when sortBy is present, and the direction is
\* DESC for "desc" and ASC for an absent or unrecognized sortOrder.
C12_OrderByDirection ==
  /\ resp.op = "getRecords"
  /\ resp.q.page >= 1 /\ resp.q.limit >= 1 /\ resp.q.limit <= 100
  /\ resp.table \in DOMAIN CatalogOf
  /\ Truthy(resp.q.sortBy) => resp.q.sortBy.s \in ColumnNames(resp.table)
  /\ \A k \in 1..Len(resp.q.filters) : resp.q.filters[k][1] \in ColumnNames(resp.table)
  => /\ resp.status = 200
     /\ \A i \in DataQueriesOf(resp) :
          LET text == resp.sent[i].text
          IN /\ ("ORDER BY" \in Range(text)) <=> Truthy(resp.q.sortBy)
             /\ Truthy(resp.q.sortBy) =>
                  /\ Len(OrderToks(text)) = 2
                  /\ OrderToks(text)[1] = Q(resp.q.sortBy.s)
                  /\ OrderToks(text)[2] \in {"ASC", "DESC"}
                  /\ resp.q.raw.sortOrder = S("desc") => OrderToks(text)[2] = "DESC"
                  /\ resp.q.raw.sortOrder \notin {S("desc"), S("DESC")} => OrderToks(text)[2] = "ASC"

\* C13: a records request with valid paging on a table name without a
\* descriptor answers 404 and sends no statement that names the table.
C13_UnknownTableIsNotFound ==
  /\ resp.op = "getRecords" /\ PaginationOk(resp.q)
  /\ resp.table \notin DOMAIN CatalogOf
  => resp.status = 404 /\ Q(resp.table) \notin Lexemes(resp.sent)

\* The names getTables returns descriptors for on a reachable database.
ListedNames == {name \in Range(ListTables) : name \in DOMAIN CatalogOf}

\* ordinal_position of a column of a public table.
OrdinalOf(tableName, columnName) ==
  (CHOOSE c \in InformationSchemaColumns :
     c.table_schema = "public" /\ c.table_name = tableName /\ c.column_name = columnName)
  .ordinal_position

\* C14: on a reachable database getTableInfo answers with a descriptor whose
\* columns are the table's columns in ordinal order for every name getTables
\* lists, and with 404 for every other name.
C14_DescriptorIffListed ==
  resp.op = "getTableInfo" /\ up =>
    IF resp.table \in ListedNames
      THEN /\ resp.status = 200
           /\ LET cols == resp.rows[1].columns
              IN /\ {cols[i].name : i \in 1..Len(cols)} =
                      {c.column_name : c \in {x \in InformationSchemaColumns :
                          x.table_schema = "public" /\ x.table_name = resp.table}}
                 /\ \A i, j \in 1..Len(cols) :
                      i < j => OrdinalOf(resp.table, cols[i].name) < OrdinalOf(resp.table, cols[j].name)
      ELSE resp.status = 404

\* C15: when the database cannot be reached, getTableInfo, getRecord and
\* deleteRecord answer with a server error, and so does getTables when its
\* tables query fails.
C15_FailureIsSurfaced ==
  /\ resp.op \in {"getTableInfo", "getRecord", "deleteRecord"} /\ ~up => resp.status >= 500
  /\ resp.op = "getTables" /\ job.failed => resp.status >= 500

\* C16: a step that answers an updateRecord(table, id, record) request
\* leaves every row whose primary-key column is not id as it was, keeps the
\* number of rows, gives each changed row the values its original had in
\* the columns that are not keys of record, and leaves the other tables
\* unchanged.
C16_UpdateFrame ==
  [][resp.op = "none" /\ resp'.op = "updateRecord" /\ resp'.table \in Tables =>
       LET t == resp'.table
           pk == PrimaryKey(Catalog(t))
           target == IF pk \in ColumnNames(t) THEN {row \in db[t] : row[pk] = S(resp'.id)} ELSE {}
           others == db[t] \ target
       IN /\ others \subseteq db'[t]
          /\ Cardinality(db'[t]) = Cardinality(db[t])
          /\ Cardinality(target) <= 1
          /\ \A new \in db'[t] \ others : \E row \in target :
               \A c \in ColumnNames(t) \ Range(Keys(resp'.rec)) : new[c] = row[c]
          /\ \A t2 \in Tables \ {t} : db'[t2] = db[t2]]_vars

\* C16 witness: an update of the email of one of two rows has answered with
\* the row.
C16_Witness ==
  /\ resp.op = "updateRecord" /\ resp.status = 200 /\ resp.table = "users"
  /\ Keys(resp.rec) = <<"email">>
  /\ resp.hit = 1
  /\ resp.rows[1].id = S(resp.id) /\ resp.rows[1].email = resp.rec[1][2]
  /\ Cardinality(db["users"]) = 2

\* C17: the answer of getTables, when its tables query succeeded, holds the
\* descriptor of every listed table whose getTableInfo did not return null,
\* in listing order, and nothing else.
C17_ListingSkipsFailures ==
  resp.op = "getTables" /\ ~job.failed =>
    /\ resp.status = 200
    /\ [i \in 1..Len(resp.rows) |-> resp.rows[i].tableName]
         = SelectSeqIdx(job.listed, Range(job.listed) \ job.skipped)
    /\ \A i \in 1..Len(resp.rows) : resp.rows[i].columns = Catalog(resp.rows[i].tableName)

\* C17 witness: getTables has answered with the descriptors of a table
\* listed before and of a table listed after the ones it skipped.
C17_Witness ==
  /\ resp.op = "getTables" /\ ~job.failed
  /\ job.skipped # {}
  /\ Len(resp.rows) = 2
  /\ \E i, j, k \in 1..Len(job.listed) :
       /\ i < j /\ j < k
       /\ job.listed[i] = resp.rows[1].tableName
       /\ job.listed[j] \in job.skipped
       /\ job.listed[k] = resp.rows[2].tableName

\* Whether a request string is a decimal number, and the number; and
\* whether it is absent or does not start like a number.
Numeric(raw) == raw.t = "str" /\ \E n \in -1..101 : ToString(n) = raw.s
NonNumeric(raw) ==
  \/ raw.t # "str"
  \/ raw.s = ""
  \/ SubSeq(raw.s, 1, 1) \notin {"0", "1", "2", "3", "4", "5", "6", "7", "8", "9", "-", "+"}
NumberOf(raw) == CHOOSE n \in -1..101 : ToString(n) = raw.s

QueriesOf(r) ==
  {r.sent[i] : i \in DataQueriesOf(r)} \cup (IF r.sent # <<>> THEN {CountQueryOf(r)} ELSE {})

\* Whether the code builds a search clause, and a filter clause, for a
\* records request.
SearchProduced(r) ==
  /\ Truthy(r.q.search)
  /\ \E i \in 1..Len(Catalog(r.table)) : Catalog(r.table)[i].type \in TextTypes
FilterProduced(r) == \E k \in 1..Len(r.q.filters) : FilterApplies(r.q.filters[k][2])

\* C19: in the count query and the data query of a records request, a
\* search clause and filter clauses are joined as ( search ) AND filters,
\* with every OR inside the parentheses; the returned rows satisfy the
\* search and every filter; and without a search clause and a filter
\* clause the queries have no WHERE.
C19_SearchAndFilters ==
  resp.op = "getRecords" /\ resp.table \in DOMAIN CatalogOf =>
    /\ \A st \in QueriesOf(resp) :
         LET text == st.text
             w == WhereToks(text)
             close == IndexOf(w, ")")
         IN IF SearchProduced(resp) /\ FilterProduced(resp)
              THEN /\ Len(w) > 0 /\ w[1] = "(" /\ close > 0 /\ close < Len(w)
                   /\ w[close + 1] = "AND"
                   /\ \A k \in 1..Len(w) :
                        /\ w[k] \in {"OR", "ILIKE"} => k < close
                        /\ w[k] = "=" => k > close
                   /\ "=" \in Range(w) /\ "ILIKE" \in Range(w)
              ELSE IF ~SearchProduced(resp) /\ ~FilterProduced(resp)
                THEN "WHERE" \notin Range(text)
                ELSE "WHERE" \in Range(text) /\ ("AND" \in Range(w) => "OR" \notin Range(w))
    /\ resp.status = 200 =>
         \A i \in 1..Len(resp.rows) :
           /\ SearchProduced(resp) =>
                \E c \in ColumnNames(resp.table) :
                  /\ resp.rows[i][c].t = "str"
                  /\ LikeMatch("%" \o resp.q.search.s \o "%", resp.rows[i][c].s)
           /\ \A k \in 1..Len(resp.q.filters) :
                FilterApplies(resp.q.filters[k][2]) =>
                  resp.rows[i][resp.q.filters[k][1]] = resp.q.filters[k][2]

\* C19 witness: a records request with a search term and a filter has
\* returned a row of a table that holds another row.
C19_Witness ==
  /\ resp.op = "getRecords" /\ resp.status = 200 /\ resp.table = "users"
  /\ SearchProduced(resp) /\ FilterProduced(resp)
  /\ Len(resp.rows) = 1
  /\ Cardinality(db["users"]) = 2

\* C20: when a records request has sent its data query, the count query
\* before it has the same WHERE clause, the data query's parameters without
\* the last two, and no LIMIT, OFFSET or ORDER BY; and total is the number
\* of rows of the table that this WHERE clause selects.
C20_CountMatchesData ==
  resp.op = "getRecords" =>
    \A i \in DataQueriesOf(resp) :
      LET data == resp.sent[i]
          cnt == resp.sent[i - 1]
      IN /\ cnt.text[2] = "COUNT(*)"
         /\ TableOf(cnt.text) = resp.table /\ TableOf(data.text) = resp.table
         /\ HasWhere(cnt.text) <=> HasWhere(data.text)
         /\ WhereToks(cnt.text) = WhereToks(data.text)
         /\ cnt.params = SubSeq(data.params, 1, Len(data.params) - 2)
         /\ Range(cnt.text) \cap {"LIMIT", "OFFSET", "ORDER BY"} = {}
         /\ resp.status = 200 =>
              resp.total = Cardinality(Matching(data.text, data.params, Rows(db, resp.table)))

\* C20 witness: a filtered records request has counted fewer rows than the
\* table holds and more than the page returned.
C20_Witness ==
  /\ resp.op = "getRecords" /\ resp.status = 200 /\ resp.table = "users"
  /\ FilterProduced(resp)
  /\ resp.total = 1 /\ Len(resp.rows) = 0
  /\ Cardinality(db["users"]) = 2

\* The statement of a getRecord, updateRecord or deleteRecord call that
\* addresses the row: the one sent after the two of getTableInfo.
AddressingOf(r) == {i \in 1..Len(r.sent) : r.sent[i].text[1] \in {"UPDATE", "DELETE FROM"}
                                           \/ (r.sent[i].text[1] = "SELECT" /\ r.sent[i].text[2] = "*")}

\* The columns the descriptor of a table marks as primary key, and the one
\* of them that comes first in information_schema's ordinal order.
MarkedColumns(tableName) ==
  {c \in InformationSchemaColumns :
     /\ c.table_schema = "public" /\ c.table_name = tableName
     /\ \E i \in 1..Len(Catalog(tableName)) :
          Catalog(tableName)[i].name = c.column_name /\ Catalog(tableName)[i].primaryKey}
FirstMarked(tableName) ==
  IF MarkedColumns(tableName) = {} THEN "id"
  ELSE (CHOOSE c \in MarkedColumns(tableName) :
          \A o \in MarkedColumns(tableName) : c.ordinal_position <= o.ordinal_position).column_name

\* C21: the statement by which getRecord, updateRecord or deleteRecord
\* addresses a row compares, in its WHERE clause, the column that the
\* descriptor marks as primary key and that comes first in ordinal order,
\* or the column "id" when the descriptor marks none, with the id of the
\* request; the three operations so use the same column of a table.
C21_AddressedByFirstKey ==
  resp.op \in {"getRecord", "updateRecord", "deleteRecord"} =>
    \A i \in AddressingOf(resp) :
      LET st == resp.sent[i]
          w == WhereToks(st.text)
      IN /\ i = Len(resp.sent)
         /\ Len(w) = 3
         /\ w[1] = Q(FirstMarked(resp.table))
         /\ w[2] = "="
         /\ PlaceholderIndex(w[3], st.params) > 0
         /\ st.params[PlaceholderIndex(w[3], st.params)] = S(resp.id)

\* C21 witness: an update has changed a row of a table whose descriptor
\* marks more than one column.
C21_Witness ==
  /\ resp.op = "updateRecord" /\ resp.status = 200 /\ resp.kind = "record"
  /\ Cardinality(MarkedColumns(resp.table)) > 1
  /\ AddressingOf(resp) # {}

\* C23: the descriptor that getTableInfo returns for a table has each
\* column of the table exactly once, and marks a column as primary key
\* exactly when a PRIMARY KEY constraint of that table in the public schema
\* holds it.
C23_PrimaryKeyMarks ==
  resp.op = "getTableInfo" /\ resp.status = 200 =>
    LET cols == resp.rows[1].columns
        own == {c.column_name : c \in {x \in InformationSchemaColumns :
                  x.table_schema = "public" /\ x.table_name = resp.table}}
    IN /\ \A c \in own : Cardinality({i \in 1..Len(cols) : cols[i].name = c}) = 1
       /\ \A i \in 1..Len(cols) : cols[i].name \in own
       /\ \A i \in 1..Len(cols) : cols[i].primaryKey <=> cols[i].name \in KeyColumns(resp.table)

\* The positions of a lexeme in a statement text, and the number of its
\* occurrences up to a position.
PositionsOf(text, tok) == {i \in 1..Len(text) : text[i] = tok}
RankOf(text, tok, i) == Cardinality({j \in PositionsOf(text, tok) : j <= i})

\* The filter entries of a request that getRecords turns into predicates,
\* in the order of the filters object.
KeptFilters(q) == SelectSeq(q.filters, LAMBDA e : FilterApplies(e[2]))

\* Whether the placeholders of the WHERE clause of a count or data query
\* of request r refer to the positions of the values they stand for.
WherePositionsOk(r, st) ==
  LET s == IF "ILIKE" \in Range(st.text) THEN 1 ELSE 0
      kept == KeptFilters(r.q)
  IN /\ Len(st.params) >= s + Len(kept)
     /\ \A i \in PositionsOf(st.text, "ILIKE") :
          st.text[i + 1] = P(1) /\ st.params[1] = S("%" \o r.q.search.s \o "%")
     /\ Cardinality(PositionsOf(st.text, "=")) = Len(kept)
     /\ \A i \in PositionsOf(st.text, "=") :
          LET j == RankOf(st.text, "=", i)
          IN /\ st.text[i - 1] = Q(kept[j][1])
             /\ st.text[i + 1] = P(s + j)
             /\ st.params[s + j] = kept[j][2]
     /\ \A i \in 1..Len(st.text) :
          IsPlaceholder(st.text[i]) => \E k \in 1..Len(st.params) : st.text[i] = P(k)

\* C25: in the count query and the data query of a records request every
\* placeholder $k stands where the k-th parameter is meant: the search term
\* is parameter 1 when there is a search clause, the values of the filters
\* follow in the order of the filters, limit and offset are the last two
\* parameters of the data query, after LIMIT and OFFSET, and the count
\* query carries the parameters of the WHERE clause and no other.
C25_PlaceholderPositions ==
  resp.op = "getRecords" =>
    /\ \A i \in DataQueriesOf(resp) :
         LET data == resp.sent[i]
             n == Len(data.params)
             s == IF "ILIKE" \in Range(data.text) THEN 1 ELSE 0
         IN /\ WherePositionsOk(resp, data)
            /\ n = s + Len(KeptFilters(resp.q)) + 2
            /\ Cardinality(PositionsOf(data.text, "LIMIT")) = 1
            /\ Cardinality(PositionsOf(data.text, "OFFSET")) = 1
            /\ \A k \in PositionsOf(data.text, "LIMIT") : data.text[k + 1] = P(n - 1)
            /\ \A k \in PositionsOf(data.text, "OFFSET") : data.text[k + 1] = P(n)
            /\ data.params[n - 1] = I(resp.q.limit)
            /\ data.params[n] = I((resp.q.page - 1) * resp.q.limit)
    /\ resp.sent # <<>> =>
         LET cnt == CountQueryOf(resp)
             s == IF "ILIKE" \in Range(cnt.text) THEN 1 ELSE 0
         IN /\ WherePositionsOk(resp, cnt)
            /\ Len(cnt.params) = s + Len(KeptFilters(resp.q))

\* C25 witness: a records request with a search clause and a filter
\* predicate has returned a page.
C25_Witness ==
  /\ resp.op = "getRecords" /\ resp.status = 200
  /\ \E i \in DataQueriesOf(resp) :
       /\ "ILIKE" \in Range(resp.sent[i].text)
       /\ Len(resp.sent[i].params) = 4

\* C22: in a getRecords call the count query is executed at one await and
\* the data query at a later one, each on the database as it is at that
\* moment: total is the number of rows the WHERE clause selects when the
\* count query runs, the page is made of rows it selects when the data
\* query runs, and calls of other callers may write in between, so that a
\* page can hold more rows than total.
C22_CountThenData ==
  [][\A p \in Callers :
       /\ calls[p].pc = "count" /\ calls'[p].pc = "data" =>
            /\ locals[p].query.text[2] = "COUNT(*)"
            /\ locals'[p].total =
                 Cardinality(Matching(locals[p].query.text, locals[p].query.params,
                                      Rows(db, calls[p].table)))
       /\ calls[p].pc = "data" /\ calls'[p].pc = "done" /\ ~calls'[p].threw =>
            /\ calls'[p].total = locals[p].total
            /\ Range(calls'[p].rows) \subseteq
                 Matching(locals[p].query.text, locals[p].query.params, Rows(db, calls[p].table))
            /\ Len(calls'[p].sent) >= 2
            /\ calls'[p].sent[Len(calls'[p].sent) - 1].text[2] = "COUNT(*)"
            /\ calls'[p].sent[Len(calls'[p].sent)].text[2] = "*"]_vars

\* C22 witness: a getRecords call has returned more rows than its total.
C22_Witness ==
  \E p \in Callers :
    /\ calls[p].op = "getRecords" /\ calls[p].pc = "done" /\ ~calls[p].threw
    /\ Len(calls[p].rows) > calls[p].total

IsPrefix(a, b) == Len(a) <= Len(b) /\ SubSeq(b, 1, Len(a)) = a

\* The results of a call's method when nothing runs between its awaits, on
\* tables without rows: the statements a method sends depend on its
\* arguments and on the catalog, not on the rows.
Sequential(c) ==
  LET d == [t \in Tables |-> {}]
  IN CASE c.op = "getRecords" -> getRecords(c.table, c.q, d)
       [] c.op = "createRecord" -> createRecord(c.table, c.data, d)
       [] c.op = "updateRecord" -> updateRecord(c.table, c.id, c.data, d)
       [] c.op = "deleteRecord" -> deleteRecord(c.table, c.id, d)
       [] OTHER -> {}

\* The values and the names a call may put into its statements: those of
\* its arguments and of the descriptor of its table.
OwnValues(c) ==
  {S(c.table), S(c.id), I(c.q.limit), I((c.q.page - 1) * c.q.limit)}
    \cup (IF Truthy(c.q.search) THEN {S("%" \o c.q.search.s \o "%")} ELSE {})
    \cup {c.q.filters[k][2] : k \in 1..Len(c.q.filters)}
    \cup Range(Values(c.data))
OwnNames(c) ==
  {c.table, "id"} \cup ColumnNames(c.table) \cup Range(Keys(c.data))
    \cup {c.q.filters[k][1] : k \in 1..Len(c.q.filters)}
    \cup (IF Truthy(c.q.sortBy) THEN {c.q.sortBy.s} ELSE {})

\* C24: whatever runs between the awaits of a getRecords, createRecord,
\* updateRecord or deleteRecord call, the statements it has sent are those
\* the method sends for its arguments when it runs alone; their parameters
\* are values of the call's own arguments and their identifiers names of its
\* own arguments or of its table's descriptor.
C24_CallsAreIsolated ==
  \A p \in Callers :
    calls[p].op # "none" =>
      /\ \E r \in Sequential(calls[p]) : IsPrefix(calls[p].sent, r.sent)
      /\ calls[p].pc = "done" => \E r \in Sequential(calls[p]) : calls[p].sent = r.sent
      /\ \A i \in 1..Len(calls[p].sent) :
           /\ Range(calls[p].sent[i].params) \subseteq OwnValues(calls[p])
           /\ \A k \in 1..Len(calls[p].sent[i].text) :
                IsIdent(calls[p].sent[i].text[k]) =>
                  Unquote(calls[p].sent[i].text[k]) \in OwnNames(calls[p])

\* C24 witness: two getRecords calls on one table, one with a search term
\* and one with a filter, have both sent their count query and await their
\* data query.
C24_Witness ==
  /\ calls[1].op = "getRecords" /\ calls[2].op = "getRecords"
  /\ calls[1].table = "users" /\ calls[2].table = "users"
  /\ calls[1].pc = "data" /\ calls[2].pc = "data"
  /\ Truthy(calls[1].q.search) /\ calls[1].q.filters = <<>>
  /\ ~Truthy(calls[2].q.search) /\ calls[2].q.filters # <<>>

\* C26: when the user confirms the deletion of a record of the data table
\* in the delete dialog, the id of the DELETE request is the value of the
\* record's primary-key column, the column deleteRecord resolves for the
\* table.
C26_DeleteCarriesKey ==
  [][ConfirmDelete =>
       resp'.id = TemplateString(RecordField(ui.deletingRecord[1],
                                             PrimaryKey(Catalog(ui.selectedTable))))]_vars

\* C27: after any table selections and sort clicks, the sortBy of a records
\* request for the selected table is unset or names a column of that table.
C27_SortColumnOfTable ==
  (resp.op = "getRecords" /\ Truthy(resp.q.sortBy)) =>
    /\ resp.table = ui.selectedTable
    /\ resp.q.sortBy.s \in ColumnNames(resp.table)

\* C28: after any sequence of actions of the user interface, the requested
\* page is at most max(1, totalPages) of the latest records response.
C28_PageWithinTotal ==
  ui.recordsData.loaded =>
    ui.pagination.page <= (IF ui.recordsData.totalPages > 1 THEN ui.recordsData.totalPages ELSE 1)

\* C29: every step that changes the search term, the filters, the sort
\* column or direction, the page size or the selected table leaves page at
\* 1, and handlePageChange changes the page and leaves the limit, sortBy,
\* sortOrder, the search term and the filters as they were.
C29_PageResetAndFrame ==
  [][/\ (\/ ui'.searchTerm # ui.searchTerm
         \/ ui'.filters # ui.filters
         \/ ui'.pagination.sortBy # ui.pagination.sortBy
         \/ ui'.pagination.sortOrder # ui.pagination.sortOrder
         \/ ui'.pagination.limit # ui.pagination.limit
         \/ ui'.selectedTable # ui.selectedTable)
        => ui'.pagination.page = 1
     /\ \A page \in BarPages(ui.recordsData) :
          HandlePageChange(page) =>
            /\ ui'.pagination = [ui.pagination EXCEPT !.page = page]
            /\ ui'.searchTerm = ui.searchTerm
            /\ ui'.filters = ui.filters
            /\ ui'.selectedTable = ui.selectedTable]_vars

\* A page after the first is shown of records searched, filtered and
\* sorted in descending order: each of them reset the page, and the page
\* change kept them.
C29_Witness ==
  /\ ui.recordsData.loaded /\ ~ui.pending
  /\ ui.pagination.page > 1 /\ ui.recordsData.page = ui.pagination.page
  /\ ui.searchTerm # "" /\ ui.filters # <<>>
  /\ Truthy(ui.pagination.sortBy) /\ ui.pagination.sortOrder = "desc"

\* C30: whenever the pagination bar is shown (totalPages > 1) with
\* 1 <= page <= totalPages, the numbered buttons are min(5, totalPages)
\* consecutive integers within 1..totalPages, the current page among them,
\* and the last-page button is shown only when totalPages is not among
\* them.
C30_PageButtonWindow ==
  LET rd == ui.recordsData
      buttons == PageButtons(rd.page, rd.totalPages)
  IN (rd.loaded /\ rd.totalPages > 1 /\ 1 <= rd.page /\ rd.page <= rd.totalPages) =>
       /\ Len(buttons) = (IF rd.totalPages < 5 THEN rd.totalPages ELSE 5)
       /\ \A k \in 1..(Len(buttons) - 1) : buttons[k + 1] = buttons[k] + 1
       /\ \A k \in 1..Len(buttons) : 1 <= buttons[k] /\ buttons[k] <= rd.totalPages
       /\ \E k \in 1..Len(buttons) : buttons[k] = rd.page
       /\ (LastPageButton(rd.page, rd.totalPages) => rd.totalPages \notin Range(buttons))

\* The bar of a page in the middle of more than seven pages: the window is
\* centred on the page and the last-page button is shown.
C30_Witness ==
  /\ ui.recordsData.loaded /\ ui.recordsData.totalPages > 7
  /\ ui.recordsData.page > 3 /\ ui.recordsData.page < ui.recordsData.totalPages - 2
  /\ LastPageButton(ui.recordsData.page, ui.recordsData.totalPages)
  /\ PageButtons(ui.recordsData.page, ui.recordsData.totalPages)[3] = ui.recordsData.page

====
